---- MODULE Spec2Model ----
(***************************************************************************)
(* Model of the fixed-table (145-entry) Exomizer raw decruncher            *)
(* exod_decrunch and of the helpers it calls.  The decoder keeps its whole *)
(* state in file-scope statics; each of them is a variable here.  The      *)
(* locals of one invocation (length, offset, is_sequence, the for-loop     *)
(* counter i, command_byte, bit) live in loc[p], p being the invocation.   *)
(*                                                                         *)
(* Integer widths: uint8_t is % 256, uint16_t is % 65536, and int is taken *)
(* to be at least 32 bits wide (the ESP32/ARM build), so that get_n_bits   *)
(* returns 0..65535 or -1.                                                 *)
(***************************************************************************)
EXTENDS Integers, Sequences, FiniteSets, TLC

\* ---------------------------------------------------------------- bounds
MaxInLen == 3
MaxCap   == 7
MaxCalls == 3
MaxBitLen == 3                \* longest input read straight by the bit reader
MaxUnary == 18                \* longest run of zero bits opening a gamma code
MaxRun   == 32                \* longest literal run: parameter 31, plus 1
\* bytes of memory modelled behind out_buffer
MemSize  == (IF MaxCap > MaxRun + 1 THEN MaxCap ELSE MaxRun + 1) + 2

Procs == {1, 2}               \* invocations; each owns output region p

COMMAND_EOS_MARKER == 255

\* ------------------------------------------------------------ test inputs
demo_crunched_data == <<17, 33, 149, 177, 177, 191, 192>>
\* 'A', then GammaCopy length 5 with a new distance 1
VecRunLength == <<225, 7, 210>>
\* "AB", GammaCopy length 4 new distance 2, GammaCopy length 4 reusing it
VecReuse == <<229, 5, 11, 229, 248>>
\* 'A', then GammaCopy length 4 with reuse bit 1 (no distance decoded yet)
VecReuseFirst == <<225, 7, 240>>
\* 'A', then GammaCopy length 4 with a new distance 2 (> 1 byte of output)
VecBadDistance == <<225, 7, 228>>

ByteSet == {0, 7, 65, 210, 225, 228, 240, 255}

RECURSIVE SeqsUpTo(_, _)
SeqsUpTo(S, n) ==
    IF n = 0 THEN {<<>>}
    ELSE LET shorter == SeqsUpTo(S, n - 1)
         IN  shorter \cup {Append(s, b) : s \in shorter, b \in S}

NamedInputs == {demo_crunched_data, VecRunLength, VecReuse, VecReuseFirst,
                VecBadDistance}
Inputs     == NamedInputs \cup SeqsUpTo(ByteSet, MaxInLen)
SeqInputs  == {VecReuseFirst, VecReuse, VecRunLength, <<>>}
ConcInputs == {VecRunLength, VecReuseFirst}
Caps       == 0..MaxCap
SeqCaps    == {MaxCap - 1, MaxCap}
ConcCaps   == {MaxCap - 1, MaxCap}

\* ------------------------------------------------- inputs built from bits
\* the n-bit number v as bits, most significant first
Bits(v, n) == [j \in 1..n |-> (v \div (2 ^ (n - j))) % 2]

\* a bit string packed into bytes, first bit in bit 7, zero bits after the end
Pack(bits) ==
    LET B(j) == IF j <= Len(bits) THEN bits[j] ELSE 0
    IN  [k \in 1..((Len(bits) + 7) \div 8) |->
            B(8 * k - 7) * 128 + B(8 * k - 6) * 64 + B(8 * k - 5) * 32
            + B(8 * k - 4) * 16 + B(8 * k - 3) * 8 + B(8 * k - 2) * 4
            + B(8 * k - 1) * 2 + B(8 * k)]

\* the four prefix paths that reach literal entries, with their index width
LitPaths == {[prefix |-> <<0>>, w |-> 5], [prefix |-> <<1, 0>>, w |-> 4],
             [prefix |-> <<1, 1, 0>>, w |-> 3],
             [prefix |-> <<1, 1, 1, 0>>, w |-> 2]}
LitSeeds == {65, 255}

\* nbytes bytes seed, seed + 37, seed + 74, ... as bits
PayloadBits(seed, nbytes) ==
    [j \in 1..(8 * nbytes) |->
        Bits((seed + 37 * ((j - 1) \div 8)) % 256, 8)[((j - 1) % 8) + 1]]

\* a literal command reached by path with sub-index p, then nbytes bytes
LitVec(path, p, seed, nbytes) ==
    Pack(path.prefix \o Bits(p, path.w) \o PayloadBits(seed, nbytes))

\* every literal command with all of its bytes, and with the last one cut
LitInputs ==
    UNION {UNION {{LitVec(path, p, seed, p + 1), LitVec(path, p, seed, p)} :
                     p \in 0..(2 ^ path.w - 1)} :
              path \in LitPaths, seed \in LitSeeds}
LitCaps == {MaxCap, MaxRun, MaxRun + 1}

\* a gamma code: k zero bits, a one bit, the k-bit payload
GammaCode(k, payload) == [j \in 1..k |-> 0] \o <<1>> \o Bits(payload, k)

\* 'A', then GammaCopy whose length is GammaCode(k, payload), with reuse
\* bit 0 and a new distance 1
GammaVec(k, payload) ==
    Pack(<<0, 0, 0, 0, 0, 0>> \o Bits(65, 8) \o <<1, 1, 1, 1>>
         \o GammaCode(k, payload) \o <<0, 1>>)

\* payloads of k bits: the ends of the range, the middle, and those that
\* bring the value near the end of 16 bits
GammaPayloads(k) ==
    {0, 1 % (2 ^ k), (2 ^ k) \div 2, (2 ^ k) \div 3, 2 ^ k - 1,
     IF k >= 2 THEN 2 ^ k - 3 ELSE 0}

\* every prefix length up to MaxUnary, whole and with the last byte cut off
GammaInputs ==
    UNION {UNION {{GammaVec(k, payload),
                   SubSeq(GammaVec(k, payload), 1,
                          Len(GammaVec(k, payload)) - 1)} :
                     payload \in GammaPayloads(k)} :
              k \in 0..MaxUnary}
GammaCaps == {3, MaxCap}

\* inputs and widths for reads made straight from the bit reader
BitInputs   == SeqsUpTo({65, 210}, MaxBitLen)
ProbeWidths == 0..17

\* acme.ino reads its input from the array crunched_data, whose content is
\* a placeholder to be replaced: the array of the source, and every array
\* of its size over AcmeBytes
crunched_data == <<0, 1, 2, 3, 4, 5, 6, 7>>
AcmeBytes == {0, 129}
AcmeData ==
    {crunched_data} \cup [1..Len(crunched_data) -> AcmeBytes]

\* inputs of the listing with the 52-entry table: 'A', the length 2 copy
\* with distance 1, then prefix 110 and index 4 (a gamma sequence), the
\* length code 1 and nothing, or only zero bits, for the distance
Vec52Bits ==
    <<0, 0, 0, 0, 0, 0>> \o Bits(65, 8) \o <<1, 0>> \o Bits(0, 4)
    \o Bits(0, 12) \o <<1, 1, 0>> \o Bits(4, 3) \o <<1>>
Vec52Stale == Pack(Vec52Bits)
Vec52StaleLong == Pack(Vec52Bits \o [j \in 1..18 |-> 0])
\* 'A', then the gamma sequence at once
Vec52First ==
    Pack(<<0, 0, 0, 0, 0, 0>> \o Bits(65, 8) \o <<1, 1, 0>> \o Bits(4, 3)
         \o <<1>>)
\* 'A', then prefix 110 and index 4, length code 1, distance code 1
Vec52Gamma ==
    Pack(<<0, 0, 0, 0, 0, 0>> \o Bits(65, 8) \o <<1, 1, 0>> \o Bits(4, 3)
         \o <<1, 1>>)
Inputs52 ==
    {Vec52Stale, Vec52StaleLong, Vec52First, Vec52Gamma}
    \cup SeqsUpTo({1, 65, 130, 209}, MaxInLen)
Caps52 == {3, MaxCap}

\* inputs of the listing that parses its tables from the stream: the 52
\* four-bit table entries, two to a byte and the first in the low half,
\* then the body
MaxRawBody == 2
RawNibbles(lb0, o1b0) ==
    [j \in 1..52 |-> IF j = 1 THEN lb0 ELSE IF j = 49 THEN o1b0 ELSE 0]
RawHeader(lb0, o1b0) ==
    [j \in 1..26 |-> RawNibbles(lb0, o1b0)[2 * j - 1]
                     + 16 * RawNibbles(lb0, o1b0)[2 * j]]
\* 17 zero bits after the first, a one bit, the run length 1 and its byte
VecRawBlock == <<0, 0, 4, 8, 0, 66>>
RawBodies == SeqsUpTo({6, 9, 65}, MaxRawBody) \cup {VecRawBlock}
RawInputs ==
    {RawHeader(lb0, o1b0) \o body :
        lb0 \in {0, 1}, o1b0 \in {0, 1}, body \in RawBodies}
    \cup {SubSeq(RawHeader(1, 0), 1, 25)}
RawCaps == {2, 4}

VARIABLES
    acme,       \* the globals and locals of acme.ino
    rawdec,     \* the statics and locals of the table-parsing listing
    exod_zp_bitbuf, exod_zp_bit_count,
    crunched_data_ptr, crunched_data_len, crunched_data_index,
    decompressed_data_ptr, decompressed_buffer_size, decompressed_data_index,
    last_offset_val, exod_decrunch_table_data,
    mem,        \* mem[b][k]: byte k of the memory behind output region b
    serial,     \* last line written to Serial
    loc,        \* loc[p]: position and locals of invocation p
    args,       \* args[p]: in_data/in_len and out_max_len of invocation p
    calls,      \* calls[p]: number of calls invocation slot p has made
    hist,       \* history of the accesses made to input and output
    ret         \* ret[p]: what the caller of p found after each return

vars == <<acme, rawdec, exod_zp_bitbuf, exod_zp_bit_count, crunched_data_ptr,
          crunched_data_len, crunched_data_index, decompressed_data_ptr,
          decompressed_buffer_size, decompressed_data_index, last_offset_val,
          exod_decrunch_table_data, mem, serial, loc, args, calls, hist,
          ret>>

\* ------------------------------------------------------------- bit reader
\* Every helper takes the context c (the globals plus the locals of the
\* running invocation) and returns [r |-> returned value, c |-> new context].

\* input bits handed out so far in context c
CtxBits(c) == 8 * c.crunched_data_index - c.exod_zp_bit_count

\* history kept beside the program state: the last literal run (write index
\* and input bit position at its start, its length, bytes appended so far),
\* the number of failed bit reads, the last command decoded (input bit
\* position, value returned, table index used, bits consumed, how many so
\* far) and the last gamma-coded length (position, value, bits consumed)
NoLit   == [start |-> 0, bit0 |-> 0, len |-> 0, n |-> 0]
NoCmd   == [pos |-> 0, r |-> 0, idx |-> -1, used |-> 0, n |-> 0]
NoGamma == [pos |-> 0, r |-> 0, used |-> 0, n |-> 0]
\* and the bits handed out, the bytes pulled from the input (index, and bit
\* count at the time) and the last multi-bit read
NoBits  == [pos |-> 0, n |-> 0, r |-> 0, used |-> 0, any |-> FALSE]

exod_read_byte_from_stream_inclusive(c) ==
    IF c.crunched_data_index <= c.crunched_data_len
    THEN [r |-> TRUE,
          byte |-> IF c.crunched_data_index + 1 \in DOMAIN c.crunched_data_ptr
                   THEN c.crunched_data_ptr[c.crunched_data_index + 1]
                   ELSE 0,
          c |-> [c EXCEPT !.crunched_data_index = @ + 1,
                          !.pulls = Append(@, [idx |-> c.crunched_data_index,
                                               cnt |-> c.exod_zp_bit_count])]]
    ELSE [r |-> FALSE, byte |-> c.exod_zp_bitbuf, c |-> c]

exod_read_byte_from_stream(c) ==
    IF c.crunched_data_index < c.crunched_data_len
    THEN [r |-> TRUE,
          byte |-> c.crunched_data_ptr[c.crunched_data_index + 1],
          c |-> [c EXCEPT !.crunched_data_index = @ + 1,
                          !.pulls = Append(@, [idx |-> c.crunched_data_index,
                                               cnt |-> c.exod_zp_bit_count])]]
    ELSE [r |-> FALSE, byte |-> c.exod_zp_bitbuf, c |-> c]

get_one_bit_eager(c) ==
    LET rd == exod_read_byte_from_stream(c)
    IN  IF c.exod_zp_bit_count <= 1 /\ ~rd.r
        THEN [r |-> -1, c |-> [c EXCEPT !.fails = @ + 1]]
        ELSE LET c1 == IF c.exod_zp_bit_count <= 1
                       THEN [rd.c EXCEPT !.exod_zp_bitbuf = rd.byte,
                                         !.exod_zp_bit_count = 8]
                       ELSE c
             IN  [r |-> IF c1.exod_zp_bitbuf >= 128 THEN 1 ELSE 0,
                  c |-> [c1 EXCEPT !.exod_zp_bitbuf = (@ * 2) % 256,
                                   !.exod_zp_bit_count = @ - 1,
                                   !.bitlog = Append(@, c1.exod_zp_bitbuf
                                                          \div 128)]]

get_one_bit_stuck(c) ==
    LET rd == exod_read_byte_from_stream(c)
    IN  IF c.exod_zp_bit_count = 0 /\ ~rd.r
        THEN [r |-> -1, c |-> [c EXCEPT !.fails = @ + 1]]
        ELSE LET c1 == IF c.exod_zp_bit_count = 0
                       THEN [rd.c EXCEPT !.exod_zp_bitbuf = rd.byte,
                                         !.exod_zp_bit_count = 8]
                       ELSE c
             IN  [r |-> IF c1.exod_zp_bitbuf >= 128 THEN 1 ELSE 0,
                  c |-> [c1 EXCEPT !.exod_zp_bitbuf = (@ * 2) % 256,
                                   !.bitlog = Append(@, c1.exod_zp_bitbuf
                                                          \div 128)]]

get_one_bit_lsb(c) ==
    LET rd == exod_read_byte_from_stream(c)
    IN  IF c.exod_zp_bit_count = 0 /\ ~rd.r
        THEN [r |-> -1, c |-> [c EXCEPT !.fails = @ + 1]]
        ELSE LET c1 == IF c.exod_zp_bit_count = 0
                       THEN [rd.c EXCEPT !.exod_zp_bitbuf = rd.byte,
                                         !.exod_zp_bit_count = 8]
                       ELSE c
             IN  [r |-> c1.exod_zp_bitbuf % 2,
                  c |-> [c1 EXCEPT !.exod_zp_bitbuf = @ \div 2,
                                   !.exod_zp_bit_count = @ - 1,
                                   !.bitlog = Append(@, c1.exod_zp_bitbuf % 2)]]

get_one_bit(c) ==
    LET rd == exod_read_byte_from_stream(c)
    IN  IF c.exod_zp_bit_count = 0 /\ ~rd.r
        THEN [r |-> -1, c |-> [c EXCEPT !.fails = @ + 1]]
        ELSE LET c1 == IF c.exod_zp_bit_count = 0
                       THEN [rd.c EXCEPT !.exod_zp_bitbuf = rd.byte,
                                         !.exod_zp_bit_count = 8]
                       ELSE c
             IN  [r |-> IF c1.exod_zp_bitbuf >= 128 THEN 1 ELSE 0,
                  c |-> [c1 EXCEPT !.exod_zp_bitbuf = (@ * 2) % 256,
                                   !.exod_zp_bit_count = @ - 1,
                                   !.bitlog = Append(@, c1.exod_zp_bitbuf
                                                          \div 128)]]

RECURSIVE get_n_bits_loop_lsb(_, _, _, _)
get_n_bits_loop_lsb(n, i, value, c) ==
    IF i >= n THEN [r |-> value, c |-> c]
    ELSE LET bit == get_one_bit(c)
         IN  IF bit.r = -1 THEN [r |-> -1, c |-> bit.c]
             ELSE get_n_bits_loop_lsb(n, i + 1,
                                      (value + bit.r * 2 ^ i) % 65536, bit.c)

RECURSIVE get_n_bits_loop(_, _, _, _)
get_n_bits_loop(n, i, value, c) ==
    IF i >= n THEN [r |-> value, c |-> c]
    ELSE LET bit == get_one_bit(c)
         IN  IF bit.r = -1 THEN [r |-> -1, c |-> bit.c]
             ELSE get_n_bits_loop(n, i + 1, (value * 2 + bit.r) % 65536, bit.c)

\* the result of a multi-bit read, the read noted in the history
NoteBits(n, c, res) ==
    [r |-> res.r,
     c |-> [res.c EXCEPT !.nb = [pos |-> Len(c.bitlog), n |-> n,
                                 r |-> res.r,
                                 used |-> Len(res.c.bitlog) - Len(c.bitlog),
                                 any |-> TRUE]]]

get_n_bits(n, c) ==
    IF n = 0 THEN NoteBits(n, c, [r |-> 0, c |-> c])
    ELSE IF n > 16 THEN NoteBits(n, c, [r |-> -1, c |-> c])
    ELSE NoteBits(n, c, get_n_bits_loop(n, 0, 0, c))

\* the unary scan of get_gamma_coded_value: r is the count, -1 on failure
RECURSIVE gamma_unary(_, _)
gamma_unary(unary_count, c) ==
    LET bit == get_one_bit(c)
    IN  IF bit.r = -1 THEN [r |-> -1, c |-> bit.c]
        ELSE IF bit.r = 1 THEN [r |-> unary_count, c |-> bit.c]
        ELSE IF unary_count + 1 > 16 THEN [r |-> -1, c |-> bit.c]
        ELSE gamma_unary(unary_count + 1, bit.c)

get_gamma_coded_value(c) ==
    LET u == gamma_unary(0, c)
    IN  IF u.r = -1 THEN [r |-> 0, c |-> u.c]
        ELSE IF u.r = 0 THEN [r |-> 1, c |-> u.c]
        ELSE LET nb == get_n_bits(u.r, u.c)
                 value_part == nb.r % 65536      \* (uint16_t) of the int
             IN  IF value_part = 65535 THEN [r |-> 0, c |-> nb.c]
                 ELSE [r |-> (2 ^ u.r + value_part) % 65536, c |-> nb.c]

\* ------------------------------------------------------------ command table
LiteralEntries == [i \in 1..32 |-> ((i - 1) * 4) % 256]
TableBlock_alternating == LiteralEntries \o <<41, 42, 41, 42>>

TableBlock == LiteralEntries \o <<41, 41, 42, 42>>

init_decrunch_table ==
    TableBlock \o TableBlock \o TableBlock \o TableBlock \o <<3>>

ZeroTable == [k \in 1..145 |-> 0]

get_coded_command_val_base32(c) ==
    LET T(k) == c.exod_decrunch_table_data[k + 1]
        b1 == get_one_bit(c)
        s1 == get_n_bits(5, b1.c)
        b2 == get_one_bit(b1.c)
        s2 == get_n_bits(4, b2.c)
        b3 == get_one_bit(b2.c)
        s3 == get_n_bits(3, b3.c)
        b4 == get_one_bit(b3.c)
        s4 == get_n_bits(2, b4.c)
    IN  IF b1.r = -1 THEN [r |-> COMMAND_EOS_MARKER, idx |-> -1, c |-> b1.c]
        ELSE IF b1.r = 0 THEN
            IF s1.r = -1 THEN [r |-> COMMAND_EOS_MARKER, idx |-> -1, c |-> s1.c]
            ELSE [r |-> T(108 + s1.r), idx |-> 108 + s1.r, c |-> s1.c]
        ELSE IF b2.r = -1 THEN [r |-> COMMAND_EOS_MARKER, idx |-> -1, c |-> b2.c]
        ELSE IF b2.r = 0 THEN
            IF s2.r = -1 THEN [r |-> COMMAND_EOS_MARKER, idx |-> -1, c |-> s2.c]
            ELSE [r |-> T(32 + s2.r), idx |-> 32 + s2.r, c |-> s2.c]
        ELSE IF b3.r = -1 THEN [r |-> COMMAND_EOS_MARKER, idx |-> -1, c |-> b3.c]
        ELSE IF b3.r = 0 THEN
            IF s3.r = -1 THEN [r |-> COMMAND_EOS_MARKER, idx |-> -1, c |-> s3.c]
            ELSE [r |-> T(72 + s3.r), idx |-> 72 + s3.r, c |-> s3.c]
        ELSE IF b4.r = -1 THEN [r |-> COMMAND_EOS_MARKER, idx |-> -1, c |-> b4.c]
        ELSE IF b4.r = 0 THEN
            IF s4.r = -1 THEN [r |-> COMMAND_EOS_MARKER, idx |-> -1, c |-> s4.c]
            ELSE [r |-> T(0 + s4.r), idx |-> 0 + s4.r, c |-> s4.c]
        ELSE [r |-> T(144), idx |-> 144, c |-> b4.c]

get_coded_command_val_eos1111(c) ==
    LET T(k) == c.exod_decrunch_table_data[k + 1]
        b1 == get_one_bit(c)
        s1 == get_n_bits(5, b1.c)
        b2 == get_one_bit(b1.c)
        s2 == get_n_bits(4, b2.c)
        b3 == get_one_bit(b2.c)
        s3 == get_n_bits(3, b3.c)
        b4 == get_one_bit(b3.c)
        s4 == get_n_bits(2, b4.c)
    IN  IF b1.r = -1 THEN [r |-> COMMAND_EOS_MARKER, idx |-> -1, c |-> b1.c]
        ELSE IF b1.r = 0 THEN
            IF s1.r = -1 THEN [r |-> COMMAND_EOS_MARKER, idx |-> -1, c |-> s1.c]
            ELSE [r |-> T(108 + s1.r), idx |-> 108 + s1.r, c |-> s1.c]
        ELSE IF b2.r = -1 THEN [r |-> COMMAND_EOS_MARKER, idx |-> -1, c |-> b2.c]
        ELSE IF b2.r = 0 THEN
            IF s2.r = -1 THEN [r |-> COMMAND_EOS_MARKER, idx |-> -1, c |-> s2.c]
            ELSE [r |-> T(36 + s2.r), idx |-> 36 + s2.r, c |-> s2.c]
        ELSE IF b3.r = -1 THEN [r |-> COMMAND_EOS_MARKER, idx |-> -1, c |-> b3.c]
        ELSE IF b3.r = 0 THEN
            IF s3.r = -1 THEN [r |-> COMMAND_EOS_MARKER, idx |-> -1, c |-> s3.c]
            ELSE [r |-> T(72 + s3.r), idx |-> 72 + s3.r, c |-> s3.c]
        ELSE IF b4.r = -1 THEN [r |-> COMMAND_EOS_MARKER, idx |-> -1, c |-> b4.c]
        ELSE IF b4.r = 0 THEN
            IF s4.r = -1 THEN [r |-> COMMAND_EOS_MARKER, idx |-> -1, c |-> s4.c]
            ELSE [r |-> T(0 + s4.r), idx |-> 0 + s4.r, c |-> s4.c]
        ELSE [r |-> COMMAND_EOS_MARKER, idx |-> -1, c |-> b4.c]

get_coded_command_val_wide(c) ==
    LET T(k) == c.exod_decrunch_table_data[k + 1]
        b1 == get_one_bit(c)
        s1 == get_n_bits(5, b1.c)
        b2 == get_one_bit(b1.c)
        s2 == get_n_bits(5, b2.c)
        b3 == get_one_bit(b2.c)
        s3 == get_n_bits(3, b3.c)
        b4 == get_one_bit(b3.c)
        s4 == get_n_bits(2, b4.c)
    IN  IF b1.r = -1 THEN [r |-> COMMAND_EOS_MARKER, idx |-> -1, c |-> b1.c]
        ELSE IF b1.r = 0 THEN
            IF s1.r = -1 THEN [r |-> COMMAND_EOS_MARKER, idx |-> -1, c |-> s1.c]
            ELSE [r |-> T(108 + s1.r), idx |-> 108 + s1.r, c |-> s1.c]
        ELSE IF b2.r = -1 THEN [r |-> COMMAND_EOS_MARKER, idx |-> -1, c |-> b2.c]
        ELSE IF b2.r = 0 THEN
            IF s2.r = -1 THEN [r |-> COMMAND_EOS_MARKER, idx |-> -1, c |-> s2.c]
            ELSE [r |-> T(36 + s2.r), idx |-> 36 + s2.r, c |-> s2.c]
        ELSE IF b3.r = -1 THEN [r |-> COMMAND_EOS_MARKER, idx |-> -1, c |-> b3.c]
        ELSE IF b3.r = 0 THEN
            IF s3.r = -1 THEN [r |-> COMMAND_EOS_MARKER, idx |-> -1, c |-> s3.c]
            ELSE [r |-> T(72 + s3.r), idx |-> 72 + s3.r, c |-> s3.c]
        ELSE IF b4.r = -1 THEN [r |-> COMMAND_EOS_MARKER, idx |-> -1, c |-> b4.c]
        ELSE IF b4.r = 0 THEN
            IF s4.r = -1 THEN [r |-> COMMAND_EOS_MARKER, idx |-> -1, c |-> s4.c]
            ELSE [r |-> T(0 + s4.r), idx |-> 0 + s4.r, c |-> s4.c]
        ELSE [r |-> T(144), idx |-> 144, c |-> b4.c]

get_coded_command_val(c) ==
    LET T(k) == c.exod_decrunch_table_data[k + 1]
        b1 == get_one_bit(c)
        s1 == get_n_bits(5, b1.c)
        b2 == get_one_bit(b1.c)
        s2 == get_n_bits(4, b2.c)
        b3 == get_one_bit(b2.c)
        s3 == get_n_bits(3, b3.c)
        b4 == get_one_bit(b3.c)
        s4 == get_n_bits(2, b4.c)
    IN  IF b1.r = -1 THEN [r |-> COMMAND_EOS_MARKER, idx |-> -1, c |-> b1.c]
        ELSE IF b1.r = 0 THEN
            IF s1.r = -1 THEN [r |-> COMMAND_EOS_MARKER, idx |-> -1, c |-> s1.c]
            ELSE [r |-> T(108 + s1.r), idx |-> 108 + s1.r, c |-> s1.c]
        ELSE IF b2.r = -1 THEN [r |-> COMMAND_EOS_MARKER, idx |-> -1, c |-> b2.c]
        ELSE IF b2.r = 0 THEN
            IF s2.r = -1 THEN [r |-> COMMAND_EOS_MARKER, idx |-> -1, c |-> s2.c]
            ELSE [r |-> T(36 + s2.r), idx |-> 36 + s2.r, c |-> s2.c]
        ELSE IF b3.r = -1 THEN [r |-> COMMAND_EOS_MARKER, idx |-> -1, c |-> b3.c]
        ELSE IF b3.r = 0 THEN
            IF s3.r = -1 THEN [r |-> COMMAND_EOS_MARKER, idx |-> -1, c |-> s3.c]
            ELSE [r |-> T(72 + s3.r), idx |-> 72 + s3.r, c |-> s3.c]
        ELSE IF b4.r = -1 THEN [r |-> COMMAND_EOS_MARKER, idx |-> -1, c |-> b4.c]
        ELSE IF b4.r = 0 THEN
            IF s4.r = -1 THEN [r |-> COMMAND_EOS_MARKER, idx |-> -1, c |-> s4.c]
            ELSE [r |-> T(0 + s4.r), idx |-> 0 + s4.r, c |-> s4.c]
        ELSE [r |-> T(144), idx |-> 144, c |-> b4.c]

\* ------------------------------------------------------- one invocation
NoLocals == [length |-> 0, offset |-> 0, is_sequence |-> FALSE, i |-> 0,
             command_byte |-> 0, bit |-> 0]

\* the function returns (a `return`, or a `break` out of the while loop)
Stop(c, why) ==
    [c EXCEPT !.pc = "done", !.exit = why, !.length = 0, !.offset = 0,
              !.is_sequence = FALSE, !.i = 0, !.command_byte = 0, !.bit = 0]

EndIter_forget(c) ==
    [c EXCEPT !.pc = "loop", !.length = 0, !.offset = 0,
              !.is_sequence = FALSE, !.i = 0, !.command_byte = 0, !.bit = 0,
              !.last_offset_val = 0]

\* the end of one iteration of the while loop: its locals go out of scope
EndIter(c) ==
    [c EXCEPT !.pc = "loop", !.length = 0, !.offset = 0,
              !.is_sequence = FALSE, !.i = 0, !.command_byte = 0, !.bit = 0]

ReadMem(c, k) ==
    IF c.decompressed_data_ptr \in DOMAIN c.mem
       /\ k \in DOMAIN c.mem[c.decompressed_data_ptr]
    THEN c.mem[c.decompressed_data_ptr][k]
    ELSE 0

WriteByte_preincrement(c, byte) ==
    LET b == c.decompressed_data_ptr
        k == c.decompressed_data_index + 1
    IN  [c EXCEPT !.mem = IF b \in DOMAIN c.mem /\ k \in DOMAIN c.mem[b]
                          THEN [@ EXCEPT ![b][k] = byte] ELSE @,
                  !.written = IF b \in DOMAIN @
                              THEN [@ EXCEPT ![b] = @ \cup {k}] ELSE @,
                  !.wr = k,
                  !.decompressed_data_index = @ + 1]

\* decompressed_data_ptr[decompressed_data_index++] = byte
WriteByte(c, byte) ==
    LET b == c.decompressed_data_ptr
        k == c.decompressed_data_index
    IN  [c EXCEPT !.mem = IF b \in DOMAIN c.mem /\ k \in DOMAIN c.mem[b]
                          THEN [@ EXCEPT ![b][k] = byte] ELSE @,
                  !.written = IF b \in DOMAIN @
                              THEN [@ EXCEPT ![b] = @ \cup {k}] ELSE @,
                  !.wr = k,
                  !.decompressed_data_index = @ + 1]

StartStep_keep_offset(c, in_data, out_buffer, out_max_len) ==
    [c EXCEPT !.crunched_data_ptr = in_data,
              !.crunched_data_len = Len(in_data),
              !.crunched_data_index = 0,
              !.decompressed_data_ptr = out_buffer,
              !.decompressed_buffer_size = out_max_len,
              !.decompressed_data_index = 0,
              !.exod_zp_bit_count = 0,
              !.exod_zp_bitbuf = 0,
              !.exod_decrunch_table_data = init_decrunch_table,
              !.pc = "loop", !.exit = "none",
              !.written = [@ EXCEPT ![out_buffer] = {}],
              !.wr = -1,
              !.copy = [start |-> 0, offset |-> 0, n |-> 0, rd |-> 0,
                        reused |-> FALSE],
              !.new_dist = 0,
              !.lit = NoLit, !.fails = 0, !.cmd = NoCmd, !.glen = NoGamma,
              !.bitlog = <<>>, !.pulls = <<>>, !.nb = NoBits]

StartStep(c, in_data, out_buffer, out_max_len) ==
    [c EXCEPT !.crunched_data_ptr = in_data,
              !.crunched_data_len = Len(in_data),
              !.crunched_data_index = 0,
              !.decompressed_data_ptr = out_buffer,
              !.decompressed_buffer_size = out_max_len,
              !.decompressed_data_index = 0,
              !.exod_zp_bit_count = 0,
              !.exod_zp_bitbuf = 0,
              !.last_offset_val = 0,
              !.exod_decrunch_table_data = init_decrunch_table,
              !.pc = "loop", !.exit = "none",
              !.written = [@ EXCEPT ![out_buffer] = {}],
              !.wr = -1,
              !.copy = [start |-> 0, offset |-> 0, n |-> 0, rd |-> 0,
                        reused |-> FALSE],
              !.new_dist = 0,
              !.lit = NoLit, !.fails = 0, !.cmd = NoCmd, !.glen = NoGamma,
              !.bitlog = <<>>, !.pulls = <<>>, !.nb = NoBits]

\* type 1 and type 2 entries: a fixed length and val_from_table offset bits
DecodeShortSeq(c, type, val_from_table) ==
    LET raw == get_n_bits(val_from_table, c)
    IN  IF raw.r = -1 THEN Stop(raw.c, "seq_eos")
        ELSE [raw.c EXCEPT !.is_sequence = TRUE,
                           !.length = type + 1,
                           !.offset = (raw.r + 1) % 65536,
                           !.pc = "check"]

\* the context after a gamma-coded length was read, the read noted
NoteGamma(c, len) ==
    [len.c EXCEPT !.glen = [pos |-> CtxBits(c), r |-> len.r,
                            used |-> CtxBits(len.c) - CtxBits(c),
                            n |-> c.glen.n + 1]]

DecodeGammaSeq_no_store(c) ==
    LET len == get_gamma_coded_value(c)
        lc  == NoteGamma(c, len)
        bit == get_one_bit(lc)
        off == get_gamma_coded_value(bit.c)
    IN  IF len.r = 0 THEN Stop(lc, "len_fail")
        ELSE IF bit.r = -1 THEN Stop(bit.c, "reuse_eos")
        ELSE IF bit.r = 1
        THEN [bit.c EXCEPT !.is_sequence = TRUE,
                           !.length = (len.r + 3) % 65536,
                           !.bit = 1,
                           !.offset = c.last_offset_val,
                           !.pc = "check"]
        ELSE IF off.r = 0 THEN Stop(off.c, "off_fail")
        ELSE [off.c EXCEPT !.is_sequence = TRUE,
                           !.length = (len.r + 3) % 65536,
                           !.bit = 0,
                           !.offset = off.r,
                           !.new_dist = off.r,
                           !.pc = "check"]

\* type 3: gamma-coded length, reuse bit, gamma-coded or reused offset
DecodeGammaSeq(c) ==
    LET len == get_gamma_coded_value(c)
        lc  == NoteGamma(c, len)
        bit == get_one_bit(lc)
        off == get_gamma_coded_value(bit.c)
    IN  IF len.r = 0 THEN Stop(lc, "len_fail")
        ELSE IF bit.r = -1 THEN Stop(bit.c, "reuse_eos")
        ELSE IF bit.r = 1
        THEN [bit.c EXCEPT !.is_sequence = TRUE,
                           !.length = (len.r + 3) % 65536,
                           !.bit = 1,
                           !.offset = c.last_offset_val,
                           !.pc = "check"]
        ELSE IF off.r = 0 THEN Stop(off.c, "off_fail")
        ELSE [off.c EXCEPT !.is_sequence = TRUE,
                           !.length = (len.r + 3) % 65536,
                           !.bit = 0,
                           !.offset = off.r,
                           !.last_offset_val = off.r,
                           !.new_dist = off.r,
                           !.pc = "check"]

\* the context after a command was read: command_byte set, the read noted
NoteCommand(c, cmd) ==
    [cmd.c EXCEPT !.command_byte = cmd.r,
                  !.cmd = [pos |-> CtxBits(c), r |-> cmd.r, idx |-> cmd.idx,
                           used |-> CtxBits(cmd.c) - CtxBits(c),
                           n |-> c.cmd.n + 1]]

\* the head of one loop iteration: the command and, for a sequence, its
\* length and offset
DecodeCommandStep(c) ==
    LET cmd == get_coded_command_val(c)
        type == cmd.r % 4
        val_from_table == cmd.r \div 4
        c1 == NoteCommand(c, cmd)
    IN  IF cmd.r = COMMAND_EOS_MARKER THEN Stop(c1, "eos")
        ELSE IF type = 0
        THEN [c1 EXCEPT !.length = val_from_table + 1, !.i = 0,
                        !.pc = "literal",
                        !.lit = [start |-> c.decompressed_data_index,
                                 bit0 |-> CtxBits(c1),
                                 len |-> val_from_table + 1, n |-> 0]]
        ELSE IF type \in {1, 2} THEN DecodeShortSeq(c1, type, val_from_table)
        ELSE DecodeGammaSeq(c1)

LiteralByteStep_emit_partial(c) ==
    LET literal_byte == get_n_bits(8, c)
        c1 == [WriteByte(literal_byte.c, literal_byte.r % 256)
                  EXCEPT !.lit.n = @ + 1]
    IN  IF c.decompressed_data_index >= c.decompressed_buffer_size
        THEN EndIter(c)
        ELSE IF c.i + 1 < c.length THEN [c1 EXCEPT !.i = @ + 1]
        ELSE EndIter(c1)

LiteralByteStep_aligned(c) ==
    LET rd == exod_read_byte_from_stream(c)
        c1 == [WriteByte(rd.c, rd.byte) EXCEPT !.lit.n = @ + 1]
    IN  IF c.decompressed_data_index >= c.decompressed_buffer_size
        THEN EndIter(c)
        ELSE IF ~rd.r THEN Stop(rd.c, "lit_eos")
        ELSE IF c.i + 1 < c.length THEN [c1 EXCEPT !.i = @ + 1]
        ELSE EndIter(c1)

\* one iteration of the literal for-loop
LiteralByteStep(c) ==
    LET literal_byte == get_n_bits(8, c)
        c1 == [WriteByte(literal_byte.c, literal_byte.r % 256)
                  EXCEPT !.lit.n = @ + 1]
    IN  IF c.decompressed_data_index >= c.decompressed_buffer_size
        THEN EndIter(c)
        ELSE IF literal_byte.r = -1 THEN Stop(literal_byte.c, "lit_eos")
        ELSE IF c.i + 1 < c.length THEN [c1 EXCEPT !.i = @ + 1]
        ELSE EndIter(c1)

CheckOffsetStep_no_upper(c) ==
    IF c.offset = 0
    THEN [Stop(c, "bad_offset") EXCEPT !.serial = "Error: Invalid offset"]
    ELSE LET c1 == [c EXCEPT !.i = 0, !.pc = "copy",
                             !.copy = [start |-> c.decompressed_data_index,
                                       offset |-> c.offset, n |-> 0,
                                       rd |-> 0, reused |-> (c.bit = 1)]]
         IN  IF 0 < c.length THEN c1 ELSE EndIter(c1)

CheckOffsetStep_no_return(c) ==
    LET c0 == IF c.offset = 0 \/ c.offset > c.decompressed_data_index
              THEN [c EXCEPT !.serial = "Error: Invalid offset"] ELSE c
        c1 == [c0 EXCEPT !.i = 0, !.pc = "copy",
                         !.copy = [start |-> c.decompressed_data_index,
                                   offset |-> c.offset, n |-> 0,
                                   rd |-> 0, reused |-> (c.bit = 1)]]
    IN  IF 0 < c.length THEN c1 ELSE EndIter(c1)

CheckOffsetStep_no_zero(c) ==
    IF c.offset > c.decompressed_data_index
    THEN [Stop(c, "bad_offset") EXCEPT !.serial = "Error: Invalid offset"]
    ELSE LET c1 == [c EXCEPT !.i = 0, !.pc = "copy",
                             !.copy = [start |-> c.decompressed_data_index,
                                       offset |-> c.offset, n |-> 0,
                                       rd |-> 0, reused |-> (c.bit = 1)]]
         IN  IF 0 < c.length THEN c1 ELSE EndIter(c1)

CheckOffsetStep_must_fit(c) ==
    IF c.offset = 0 \/ c.offset > c.decompressed_data_index
       \/ c.decompressed_data_index + c.length > c.decompressed_buffer_size
    THEN [Stop(c, "bad_offset") EXCEPT !.serial = "Error: Invalid offset"]
    ELSE LET c1 == [c EXCEPT !.i = 0, !.pc = "copy",
                             !.copy = [start |-> c.decompressed_data_index,
                                       offset |-> c.offset, n |-> 0,
                                       rd |-> 0, reused |-> (c.bit = 1)]]
         IN  IF 0 < c.length THEN c1 ELSE EndIter(c1)

\* if (is_sequence) { if (offset == 0 || offset > index) ... return; }
CheckOffsetStep(c) ==
    IF c.offset = 0 \/ c.offset > c.decompressed_data_index
    THEN [Stop(c, "bad_offset") EXCEPT !.serial = "Error: Invalid offset"]
    ELSE LET c1 == [c EXCEPT !.i = 0, !.pc = "copy",
                             !.copy = [start |-> c.decompressed_data_index,
                                       offset |-> c.offset, n |-> 0,
                                       rd |-> 0, reused |-> (c.bit = 1)]]
         IN  IF 0 < c.length THEN c1 ELSE EndIter(c1)

CopyByteStep_unchecked(c) ==
    LET src == c.decompressed_data_index - c.offset
        c1 == [WriteByte(c, ReadMem(c, src)) EXCEPT !.copy.rd = src,
                                                    !.copy.n = @ + 1]
    IN  IF c.i + 1 < c.length THEN [c1 EXCEPT !.i = @ + 1]
        ELSE EndIter(c1)

CopyByteStep_off_by_one(c) ==
    LET src == c.decompressed_data_index - c.offset + 1
        c1 == [WriteByte(c, ReadMem(c, src)) EXCEPT !.copy.rd = src,
                                                    !.copy.n = @ + 1]
    IN  IF c.decompressed_data_index >= c.decompressed_buffer_size
        THEN EndIter(c)
        ELSE IF c.i + 1 < c.length THEN [c1 EXCEPT !.i = @ + 1]
        ELSE EndIter(c1)

\* one iteration of the copy for-loop
CopyByteStep(c) ==
    LET src == c.decompressed_data_index - c.offset
        c1 == [WriteByte(c, ReadMem(c, src)) EXCEPT !.copy.rd = src,
                                                    !.copy.n = @ + 1]
    IN  IF c.decompressed_data_index >= c.decompressed_buffer_size
        THEN EndIter(c)
        ELSE IF c.i + 1 < c.length THEN [c1 EXCEPT !.i = @ + 1]
        ELSE EndIter(c1)

\* the while condition is false: the function returns
LoopExitStep(c) == Stop(c, "full")

\* ------------------------------------------------- a call run on its own
\* the statics as the program starts
FreshCtx ==
    [exod_zp_bitbuf |-> 0, exod_zp_bit_count |-> 0,
     crunched_data_ptr |-> <<>>, crunched_data_len |-> 0,
     crunched_data_index |-> 0, decompressed_data_ptr |-> 0,
     decompressed_buffer_size |-> 0, decompressed_data_index |-> 0,
     last_offset_val |-> 0, exod_decrunch_table_data |-> ZeroTable,
     mem |-> [b \in Procs |-> [k \in 0..(MemSize - 1) |-> 0]],
     serial |-> "", pc |-> "idle", exit |-> "none",
     length |-> 0, offset |-> 0, is_sequence |-> FALSE, i |-> 0,
     command_byte |-> 0, bit |-> 0,
     written |-> [b \in Procs |-> {}], wr |-> -1,
     copy |-> [start |-> 0, offset |-> 0, n |-> 0, rd |-> 0,
               reused |-> FALSE],
     new_dist |-> 0,
     lit |-> NoLit, fails |-> 0, cmd |-> NoCmd, glen |-> NoGamma,
     bitlog |-> <<>>, pulls |-> <<>>, nb |-> NoBits]

\* the body of exod_decrunch from the while loop on, run to its return
RECURSIVE RunFrom(_)
RunFrom(c) ==
    IF c.pc = "loop"
    THEN IF c.decompressed_data_index < c.decompressed_buffer_size
         THEN RunFrom(DecodeCommandStep(c))
         ELSE RunFrom(LoopExitStep(c))
    ELSE IF c.pc = "literal" THEN RunFrom(LiteralByteStep(c))
    ELSE IF c.pc = "check" THEN RunFrom(CheckOffsetStep(c))
    ELSE IF c.pc = "copy" THEN RunFrom(CopyByteStep(c))
    ELSE c

\* exod_decrunch called first and alone, with output region 1
exod_decrunch(in_data, out_max_len) ==
    LET c == RunFrom(StartStep(FreshCtx, in_data, 1, out_max_len))
    IN  [n |-> c.decompressed_data_index,
         out |-> [k \in 1..c.decompressed_data_index |-> c.mem[1][k - 1]]]

\* ------------------------------------ the listing with the unary limit 20
\* The third 145-entry listing shares the text of the bit reader, of
\* get_n_bits, of the table and of get_coded_command_val; it differs in
\* get_gamma_coded_value and in the body of exod_decrunch.

\* the unary scan with the limit 20: r is the count, -1 on failure
RECURSIVE gamma_unary_v3(_, _)
gamma_unary_v3(unary_count, c) ==
    LET bit == get_one_bit(c)
    IN  IF bit.r = -1 THEN [r |-> -1, c |-> bit.c]
        ELSE IF bit.r = 1 THEN [r |-> unary_count, c |-> bit.c]
        ELSE IF unary_count + 1 > 20 THEN [r |-> -1, c |-> bit.c]
        ELSE gamma_unary_v3(unary_count + 1, bit.c)

\* the value of a scan that ended with a one bit after unary_count zeros
gamma_value_v3_unchecked(unary_count, nb) ==
    [r |-> (2 ^ unary_count + (nb.r % 65536)) % 65536, c |-> nb.c]

gamma_value_v3(unary_count, nb) ==
    IF nb.r % 65536 = 65535 /\ unary_count > 0 THEN [r |-> 0, c |-> nb.c]
    ELSE [r |-> (2 ^ unary_count + (nb.r % 65536)) % 65536, c |-> nb.c]

get_gamma_coded_value_v3(c) ==
    LET u == gamma_unary_v3(0, c)
    IN  IF u.r = -1 THEN [r |-> 0, c |-> u.c]
        ELSE IF u.r = 0 THEN [r |-> 1, c |-> u.c]
        ELSE gamma_value_v3(u.r, get_n_bits(u.r, u.c))

\* a type 3 sequence of length code len whose reuse bit was 0: its offset
GammaNewOffset_v3(len, off) ==
    IF off.r = 0
    THEN [Stop(off.c, "off_fail")
             EXCEPT !.serial = "EOS/err for type 3 offset (no reuse)"]
    ELSE [off.c EXCEPT !.is_sequence = TRUE,
                       !.length = (len.r + 3) % 65536,
                       !.bit = 0,
                       !.offset = off.r,
                       !.last_offset_val = off.r,
                       !.new_dist = off.r,
                       !.pc = "check"]

\* the reuse bit and the offset of a type 3 sequence of length code len
GammaOffset_v3(c, len, bit) ==
    IF bit.r = -1
    THEN [Stop(bit.c, "reuse_eos") EXCEPT !.serial = "EOS for reuse_offset bit"]
    ELSE IF bit.r = 1
    THEN IF c.last_offset_val = 0
         THEN [Stop(bit.c, "reuse_zero")
                  EXCEPT !.serial = "Error: Reusing zero offset"]
         ELSE [bit.c EXCEPT !.is_sequence = TRUE,
                            !.length = (len.r + 3) % 65536,
                            !.bit = 1,
                            !.offset = c.last_offset_val,
                            !.pc = "check"]
    ELSE GammaNewOffset_v3(len, get_gamma_coded_value_v3(bit.c))

DecodeGammaLength_v3(c, len) ==
    IF len.r = 0
    THEN [Stop(len.c, "len_fail") EXCEPT !.serial = "EOS/err for type 3 length"]
    ELSE GammaOffset_v3(len.c, len, get_one_bit(len.c))

DecodeGammaSeq_v3(c) == DecodeGammaLength_v3(c, get_gamma_coded_value_v3(c))

ShortOffset_v3(type, raw) ==
    IF raw.r = -1
    THEN [Stop(raw.c, "seq_eos")
             EXCEPT !.serial = IF type = 1 THEN "EOS for type 1 offset"
                               ELSE "EOS for type 2 offset"]
    ELSE [raw.c EXCEPT !.is_sequence = TRUE,
                       !.length = type + 1,
                       !.offset = (raw.r + 1) % 65536,
                       !.pc = "check"]

DecodeShortSeq_v3(c, type, val_from_table) ==
    ShortOffset_v3(type, get_n_bits(val_from_table, c))

DecodeCommand_v3(c, cmd) ==
    IF cmd.r = COMMAND_EOS_MARKER THEN Stop(cmd.c, "eos")
    ELSE IF cmd.r % 4 = 0
    THEN [cmd.c EXCEPT !.command_byte = cmd.r,
                       !.length = cmd.r \div 4 + 1, !.i = 0,
                       !.pc = "literal"]
    ELSE IF cmd.r % 4 \in {1, 2}
    THEN DecodeShortSeq_v3([cmd.c EXCEPT !.command_byte = cmd.r],
                           cmd.r % 4, cmd.r \div 4)
    ELSE DecodeGammaSeq_v3([cmd.c EXCEPT !.command_byte = cmd.r])

DecodeCommandStep_v3(c) == DecodeCommand_v3(c, get_coded_command_val(c))

\* one iteration of the literal for-loop: a full buffer is a return
LiteralByte_v3(c, literal_byte) ==
    IF c.decompressed_data_index >= c.decompressed_buffer_size
    THEN [Stop(c, "lit_full")
             EXCEPT !.serial = "Out of buffer during literal copy"]
    ELSE IF literal_byte.r = -1
    THEN [Stop(literal_byte.c, "lit_eos")
             EXCEPT !.serial = "EOS during literal stream"]
    ELSE IF c.i + 1 < c.length
    THEN [WriteByte(literal_byte.c, literal_byte.r % 256) EXCEPT !.i = @ + 1]
    ELSE EndIter(WriteByte(literal_byte.c, literal_byte.r % 256))

LiteralByteStep_v3(c) == LiteralByte_v3(c, get_n_bits(8, c))

CheckOffsetStep_v3(c) ==
    IF c.offset = 0 \/ c.offset > c.decompressed_data_index
    THEN [Stop(c, "bad_offset") EXCEPT !.serial = "Invalid offset: "]
    ELSE IF 0 < c.length THEN [c EXCEPT !.i = 0, !.pc = "copy"]
    ELSE EndIter(c)

\* one iteration of the copy for-loop: a full buffer is a return
CopyByteStep_v3(c) ==
    IF c.decompressed_data_index >= c.decompressed_buffer_size
    THEN [Stop(c, "copy_full")
             EXCEPT !.serial = "Out of buffer during sequence copy"]
    ELSE IF c.i + 1 < c.length
    THEN [WriteByte(c, ReadMem(c, c.decompressed_data_index - c.offset))
             EXCEPT !.i = @ + 1]
    ELSE EndIter(WriteByte(c, ReadMem(c, c.decompressed_data_index - c.offset)))

RECURSIVE RunFrom_v3(_)
RunFrom_v3(c) ==
    IF c.pc = "loop"
    THEN IF c.decompressed_data_index < c.decompressed_buffer_size
         THEN RunFrom_v3(DecodeCommandStep_v3(c))
         ELSE RunFrom_v3(LoopExitStep(c))
    ELSE IF c.pc = "literal" THEN RunFrom_v3(LiteralByteStep_v3(c))
    ELSE IF c.pc = "check" THEN RunFrom_v3(CheckOffsetStep_v3(c))
    ELSE IF c.pc = "copy" THEN RunFrom_v3(CopyByteStep_v3(c))
    ELSE c

\* what a call that returned in context c leaves behind
Result_v3(c) ==
    [n |-> c.decompressed_data_index,
     out |-> [k \in 1..c.decompressed_data_index |-> c.mem[1][k - 1]],
     exit |-> c.exit,
     bits |-> CtxBits(c)]

\* this exod_decrunch called first and alone, with output region 1
exod_decrunch_v3(in_data, out_max_len) ==
    Result_v3(RunFrom_v3(StartStep(FreshCtx, in_data, 1, out_max_len)))

\* ------------------------------------ the listing with the 52-entry table
\* It declares the statics of the 145-entry listings under the same names
\* (its table is exod_decrunch_table, kept in exod_decrunch_table_data) and
\* its get_one_bit has their text; its actions use the same variables.

\* get_n_bits without the n > 16 test
get_n_bits_52(n, c) ==
    IF n = 0 THEN [r |-> 0, c |-> c] ELSE get_n_bits_loop(n, 0, 0, c)

gamma_value_52(unary_count, nb) ==
    IF nb.r % 65536 = 65535 THEN [r |-> 0, c |-> nb.c]
    ELSE [r |-> (2 ^ unary_count + (nb.r % 65536)) % 65536, c |-> nb.c]

gamma_payload_52(u) ==
    IF u.r = -1 THEN [r |-> 0, c |-> u.c]
    ELSE IF u.r = 0 THEN [r |-> 1, c |-> u.c]
    ELSE gamma_value_52(u.r, get_n_bits_52(u.r, u.c))

get_gamma_coded_value_52(c) == gamma_payload_52(gamma_unary(0, c))

\* 0..31 literals, 32..47 length 2 and 48..51 length 3 with 12 offset bits
init_decrunch_table_52 ==
    [k \in 1..52 |-> IF k - 1 < 32 THEN ((k - 1) * 4) % 256
                     ELSE IF k - 1 < 48 THEN 49 ELSE 50]

CommandEntry_52(base, idx) ==
    IF idx.r = -1 THEN [r |-> COMMAND_EOS_MARKER, c |-> idx.c]
    ELSE IF base = 48 /\ 48 + idx.r >= 52 THEN [r |-> 3, c |-> idx.c]
    ELSE [r |-> idx.c.exod_decrunch_table_data[base + idx.r + 1], c |-> idx.c]

CommandBit3_52(bit) ==
    IF bit.r = -1 THEN [r |-> COMMAND_EOS_MARKER, c |-> bit.c]
    ELSE IF bit.r = 0 THEN CommandEntry_52(48, get_n_bits_52(3, bit.c))
    ELSE [r |-> COMMAND_EOS_MARKER, c |-> bit.c]

CommandBit2_52(bit) ==
    IF bit.r = -1 THEN [r |-> COMMAND_EOS_MARKER, c |-> bit.c]
    ELSE IF bit.r = 0 THEN CommandEntry_52(32, get_n_bits_52(4, bit.c))
    ELSE CommandBit3_52(get_one_bit(bit.c))

CommandBit1_52(bit) ==
    IF bit.r = -1 THEN [r |-> COMMAND_EOS_MARKER, c |-> bit.c]
    ELSE IF bit.r = 0 THEN CommandEntry_52(0, get_n_bits_52(5, bit.c))
    ELSE CommandBit2_52(get_one_bit(bit.c))

get_coded_command_val_52(c) == CommandBit1_52(get_one_bit(c))

StartStep_52(c, in_data, out_buffer, out_max_len) ==
    [StartStep(c, in_data, out_buffer, out_max_len)
        EXCEPT !.exod_decrunch_table_data = init_decrunch_table_52]

\* if (offset == 0 || offset > index) return; then the copy loop is entered
CheckOffset_52(c, length, offset) ==
    IF offset = 0 \/ offset > c.decompressed_data_index
    THEN Stop(c, "bad_offset")
    ELSE IF 0 < length
    THEN [c EXCEPT !.is_sequence = TRUE, !.length = length,
                   !.offset = offset, !.i = 0, !.pc = "copy",
                   !.copy = [start |-> c.decompressed_data_index,
                             offset |-> offset, n |-> 0, rd |-> 0,
                             reused |-> (c.bit = 1)]]
    ELSE EndIter(c)

\* an offset of 0 stands for the last offset, any other is stored
Reuse_52(c, length, offset) ==
    IF offset = 0
    THEN CheckOffset_52([c EXCEPT !.bit = 1], length, c.last_offset_val)
    ELSE CheckOffset_52([c EXCEPT !.last_offset_val = offset,
                                  !.new_dist = offset],
                        length, offset)

\* the offset of a gamma sequence, the read noted in glen
GammaOffset_52(c, len, off) ==
    Reuse_52([off.c EXCEPT !.glen = [pos |-> CtxBits(c), r |-> off.r,
                                     used |-> CtxBits(off.c) - CtxBits(c),
                                     n |-> c.glen.n + 1]],
             (len.r + 3) % 65536, off.r)

GammaLength_52(len) ==
    IF len.r = 0 THEN Stop(len.c, "len_fail")
    ELSE GammaOffset_52(len.c, len, get_gamma_coded_value_52(len.c))

ShortOffset_52(type, raw_offset) ==
    IF raw_offset.r = -1 THEN Stop(raw_offset.c, "seq_eos")
    ELSE Reuse_52(raw_offset.c, IF type = 1 THEN 2 ELSE 3,
                  (raw_offset.r + 1) % 65536)

Command_52(c, command) ==
    IF command.r = COMMAND_EOS_MARKER THEN Stop(command.c, "eos")
    ELSE IF command.r % 4 = 0
    THEN [command.c EXCEPT !.command_byte = command.r,
                           !.length = command.r \div 4 + 1, !.i = 0,
                           !.pc = "literal"]
    ELSE IF command.r % 4 = 3
    THEN GammaLength_52(get_gamma_coded_value_52(
             [command.c EXCEPT !.command_byte = command.r]))
    ELSE ShortOffset_52(command.r % 4,
             get_n_bits_52(command.r \div 4,
                 [command.c EXCEPT !.command_byte = command.r]))

\* one iteration of the while loop up to its literal or copy loop
DecodeCommandStep_52(c) == Command_52(c, get_coded_command_val_52(c))

LiteralByte_52(c, b) ==
    IF c.decompressed_data_index >= c.decompressed_buffer_size
    THEN Stop(c, "lit_full")
    ELSE IF b.r = -1 THEN Stop(b.c, "lit_eos")
    ELSE IF c.i + 1 < c.length
    THEN [WriteByte(b.c, b.r % 256) EXCEPT !.i = @ + 1]
    ELSE EndIter(WriteByte(b.c, b.r % 256))

LiteralByteStep_52(c) == LiteralByte_52(c, get_n_bits_52(8, c))

\* ----------------------- the listing that parses its tables from the stream
\* Its helpers take the record r of its statics and locals and return
\* [ok or v, ..., c |-> new record].

NoRead == [n |-> 0, offset |-> 0, at |-> 0, src |-> 0, known |-> TRUE]

RawFresh ==
    [crunched_data_ptr |-> <<>>, crunched_data_len |-> 0,
     crunched_data_index |-> 0, exod_cur_byte |-> 0, exod_bit_pos |-> 8,
     decompressed_buffer_size |-> 0, decompressed_data_index |-> 0,
     last_offset_val |-> 0,
     lengths_bits |-> [j \in 0..15 |-> 0], lengths_base |-> [j \in 0..15 |-> 0],
     offsets3_bits |-> [j \in 0..15 |-> 0], offsets3_base |-> [j \in 0..15 |-> 0],
     offsets2_bits |-> [j \in 0..15 |-> 0], offsets2_base |-> [j \in 0..15 |-> 0],
     offsets1_bits |-> [j \in 0..3 |-> 0], offsets1_base |-> [j \in 0..3 |-> 0],
     out |-> [k \in 0..(MemSize - 1) |-> 0],
     pc |-> "idle", seq_len |-> 0, offset |-> 0, i |-> 0,
     written |-> {}, rd |-> NoRead, calls |-> 0]

exod_read_byte(r) ==
    IF r.crunched_data_index < r.crunched_data_len
    THEN [ok |-> TRUE, byte |-> r.crunched_data_ptr[r.crunched_data_index + 1],
          c |-> [r EXCEPT !.crunched_data_index = @ + 1]]
    ELSE [ok |-> FALSE, byte |-> 0, c |-> r]

\* the bit at exod_bit_pos of the current byte, least significant first
RawBitOf(r) ==
    [v |-> (r.exod_cur_byte \div (2 ^ r.exod_bit_pos)) % 2,
     c |-> [r EXCEPT !.exod_bit_pos = @ + 1]]

RawBitAfterRead(rb) ==
    IF ~rb.ok THEN [v |-> -1, c |-> rb.c]
    ELSE RawBitOf([rb.c EXCEPT !.exod_cur_byte = rb.byte, !.exod_bit_pos = 0])

get_one_bit_raw(r) ==
    IF r.exod_bit_pos >= 8 THEN RawBitAfterRead(exod_read_byte(r))
    ELSE RawBitOf(r)

\* the loop of get_n_bits_u32 from iteration i on: ok is FALSE at the end
\* of the input
RECURSIVE get_n_bits_u32_loop(_, _, _, _)
get_n_bits_u32_loop(n, i, v, r) ==
    IF i >= n THEN [ok |-> TRUE, v |-> v, c |-> r]
    ELSE LET b == get_one_bit_raw(r)
         IN  IF b.v = -1 THEN [ok |-> FALSE, v |-> 0, c |-> b.c]
             ELSE get_n_bits_u32_loop(n, i + 1, v + b.v * 2 ^ i, b.c)

get_n_bits_u32(n, r) ==
    IF n = 0 THEN [ok |-> TRUE, v |-> 0, c |-> r]
    ELSE IF n > 32 THEN [ok |-> FALSE, v |-> 0, c |-> r]
    ELSE get_n_bits_u32_loop(n, 0, 0, r)

\* generate_table_generic from entry i on: bits and base of the entries.
\* An entry is below 16, so a base is at most 16 * 2^15 and an offset or a
\* length, a base plus a value of at most 15 bits, stays far below the end
\* of uint32_t.
RECURSIVE generate_table_generic(_, _, _, _, _, _)
generate_table_generic(entries, i, running_base, bits_out, base_out, r) ==
    IF i >= entries
    THEN [ok |-> TRUE, bits |-> bits_out, base |-> base_out, c |-> r]
    ELSE LET v == get_n_bits_u32(4, r)
         IN  IF ~v.ok
             THEN [ok |-> FALSE, bits |-> bits_out, base |-> base_out,
                   c |-> v.c]
             ELSE generate_table_generic(
                      entries, i + 1,
                      running_base + (IF v.v = 0 THEN 1 ELSE 2 ^ v.v),
                      [bits_out EXCEPT ![i] = v.v],
                      [base_out EXCEPT ![i] = running_base], v.c)

RawTable3(t1, t2, t3) ==
    IF ~t3.ok THEN [ok |-> FALSE, c |-> t3.c]
    ELSE [ok |-> TRUE,
          c |-> [t3.c EXCEPT !.lengths_bits = t1.bits,
                             !.lengths_base = t1.base,
                             !.offsets3_bits = t2.bits,
                             !.offsets3_base = t2.base,
                             !.offsets2_bits = t3.bits,
                             !.offsets2_base = t3.base]]

RawTable4(t, t4) ==
    IF ~t4.ok THEN [ok |-> FALSE, c |-> t4.c]
    ELSE [ok |-> TRUE, c |-> [t4.c EXCEPT !.offsets1_bits = t4.bits,
                                          !.offsets1_base = t4.base]]

RawTable2(t1, t2) ==
    IF ~t2.ok THEN [ok |-> FALSE, c |-> t2.c]
    ELSE RawTable3(t1, t2, generate_table_generic(16, 0, 0,
                               t2.c.offsets2_bits, t2.c.offsets2_base, t2.c))

RawTable1(t1) ==
    IF ~t1.ok THEN [ok |-> FALSE, c |-> t1.c]
    ELSE RawTable2(t1, generate_table_generic(16, 0, 0,
                           t1.c.offsets3_bits, t1.c.offsets3_base, t1.c))

RawTables123(r) ==
    RawTable1(generate_table_generic(16, 0, 0,
                  r.lengths_bits, r.lengths_base, r))

RawTables4(t) ==
    IF ~t.ok THEN t
    ELSE RawTable4(t, generate_table_generic(4, 0, 0,
                          t.c.offsets1_bits, t.c.offsets1_base, t.c))

\* lengths, offsets3, offsets2, offsets1, in this order
parse_exomizer_raw_tables(r) == RawTables4(RawTables123(r))

RawStop(r) == [r EXCEPT !.pc = "done", !.seq_len = 0, !.offset = 0, !.i = 0]
RawNext(r) == [r EXCEPT !.pc = "loop", !.seq_len = 0, !.offset = 0, !.i = 0]

RawWrite(r, byte) ==
    [r EXCEPT !.out[r.decompressed_data_index] = byte,
              !.written = @ \cup {r.decompressed_data_index},
              !.decompressed_data_index = @ + 1]

RawParsed(t) == IF t.ok THEN RawNext(t.c) ELSE RawStop(t.c)

\* the entry of exod_decrunch up to the while loop
RawStartStep(r, in_data, out_max_len) ==
    RawParsed(parse_exomizer_raw_tables(
        [r EXCEPT !.crunched_data_ptr = in_data,
                  !.crunched_data_len = Len(in_data),
                  !.crunched_data_index = 0,
                  !.decompressed_buffer_size = out_max_len,
                  !.decompressed_data_index = 0,
                  !.exod_bit_pos = 8, !.exod_cur_byte = 0,
                  !.last_offset_val = 0,
                  !.written = {}, !.rd = NoRead, !.calls = @ + 1]))

\* bit == 1: one literal byte, read whole from the input
RawLiteral(rb) ==
    IF ~rb.ok THEN RawStop(rb.c)
    ELSE IF rb.c.decompressed_data_index < rb.c.decompressed_buffer_size
    THEN RawNext(RawWrite(rb.c, rb.byte))
    ELSE RawStop(rb.c)

\* the unary count of the main loop: -1 stands for UINT32_MAX
RECURSIVE RawUnary(_, _)
RawUnary(unary_count, r) ==
    LET gb == get_one_bit_raw(r)
    IN  IF gb.v = -1 THEN [v |-> -1, c |-> gb.c]
        ELSE IF gb.v = 1 THEN [v |-> unary_count, c |-> gb.c]
        ELSE IF unary_count + 1 > 31 THEN [v |-> -1, c |-> gb.c]
        ELSE RawUnary(unary_count + 1, gb.c)

\* the long literal block from iteration i on
RECURSIVE RawBlockLoop(_, _, _)
RawBlockLoop(i, run_len, r) ==
    IF i >= run_len THEN RawNext(r)
    ELSE LET rb == exod_read_byte(r)
         IN  IF ~rb.ok THEN RawNext(rb.c)
             ELSE IF rb.c.decompressed_data_index
                        < rb.c.decompressed_buffer_size
             THEN RawBlockLoop(i + 1, run_len, RawWrite(rb.c, rb.byte))
             ELSE RawNext(rb.c)

RawBlockLo(hi, lo) ==
    IF ~hi.ok \/ ~lo.ok THEN RawStop(lo.c)
    ELSE RawBlockLoop(0, (hi.v * 256 + (lo.v % 256)) % 65536, lo.c)

RawBlock(hi) == RawBlockLo(hi, get_n_bits_u32(8, hi.c))

\* the distance is checked against the write position only
RawCheckOffset(r, seq_len, offset) ==
    IF offset > r.decompressed_data_index THEN RawStop(r)
    ELSE IF 0 < seq_len
    THEN [r EXCEPT !.pc = "copy", !.seq_len = seq_len, !.offset = offset,
                   !.i = 0]
    ELSE RawNext(r)

RawReuse(r, seq_len, raw_offset) ==
    IF raw_offset = 0 THEN RawCheckOffset(r, seq_len, r.last_offset_val)
    ELSE RawCheckOffset([r EXCEPT !.last_offset_val = raw_offset],
                        seq_len, raw_offset)

RawOffsetRead(seq_len, base, v) ==
    IF ~v.ok THEN RawStop(v.c)
    ELSE RawReuse(v.c, seq_len, v.v + base)

\* the offset of a sequence of length seq_len and length index len_idx
RawOffset(r, len_idx, seq_len) ==
    IF seq_len = 1
    THEN RawOffsetRead(seq_len, r.offsets1_base[len_idx % 4],
                       get_n_bits_u32(r.offsets1_bits[len_idx % 4], r))
    ELSE IF seq_len = 2
    THEN RawOffsetRead(seq_len, r.offsets2_base[len_idx % 16],
                       get_n_bits_u32(r.offsets2_bits[len_idx % 16], r))
    ELSE RawOffsetRead(seq_len, r.offsets3_base[len_idx % 16],
                       get_n_bits_u32(r.offsets3_bits[len_idx % 16], r))

RawLength(len_idx, base, v) ==
    IF ~v.ok THEN RawStop(v.c)
    ELSE RawOffset(v.c, len_idx, base + v.v)

RawSequence(u) ==
    IF u.v = -1 THEN RawStop(u.c)
    ELSE IF u.v = 16 THEN RawStop(u.c)
    ELSE IF u.v = 17 THEN RawBlock(get_n_bits_u32(8, u.c))
    ELSE IF u.v > 17 THEN RawStop(u.c)
    ELSE RawLength(u.v, u.c.lengths_base[u.v],
                   get_n_bits_u32(u.c.lengths_bits[u.v], u.c))

RawCommand(bit) ==
    IF bit.v = -1 THEN RawStop(bit.c)
    ELSE IF bit.v = 1 THEN RawLiteral(exod_read_byte(bit.c))
    ELSE RawSequence(RawUnary(0, bit.c))

\* one iteration of the while loop up to its copy loop
RawIterationStep(r) ==
    IF r.decompressed_data_index < r.decompressed_buffer_size
    THEN RawCommand(get_one_bit_raw(r))
    ELSE RawStop(r)

RawCopied(r) ==
    IF r.i + 1 < r.seq_len THEN [r EXCEPT !.i = @ + 1] ELSE RawNext(r)

\* one iteration of the copy loop
RawCopyByteStep(r) ==
    IF r.decompressed_data_index >= r.decompressed_buffer_size
    THEN RawNext(r)
    ELSE RawCopied(
           [RawWrite(r, r.out[r.decompressed_data_index - r.offset])
               EXCEPT !.rd = [n |-> r.rd.n + 1, offset |-> r.offset,
                              at |-> r.decompressed_data_index,
                              src |-> r.decompressed_data_index - r.offset,
                              known |-> (r.decompressed_data_index - r.offset)
                                            \in r.written]])

\* ------------------------------------------------------------- acme.ino
\* The sketch keeps everything in globals; a is the record of its globals
\* and of the locals x, y, length of exod_decrunch.

\* the globals as the sketch is loaded with the array data
AcmeLoaded(data) ==
    [pc |-> "setup", crunched_data |-> data, crunched_data_index |-> 0,
     exod_zp_bitbuf |-> 0, exod_zp_bits_hi |-> 0, exod_zp_len_hi |-> 0,
     exod_decrunch_table |-> [k \in 0..155 |-> 0],
     decompressed_data |-> [k \in 0..255 |-> 0],
     decompressed_data_index |-> 0, overrun |-> FALSE,
     x |-> 0, y |-> 0, length |-> 0]

exod_get_crunched_byte(a) ==
    IF a.crunched_data_index < Len(a.crunched_data)
    THEN [a EXCEPT !.exod_zp_bitbuf =
                       a.crunched_data[a.crunched_data_index + 1],
                   !.crunched_data_index = @ + 1]
    ELSE [a EXCEPT !.exod_zp_bitbuf = 0]

\* INLINE_GET_BITS is 0
exod_get_bits(a) == exod_get_crunched_byte([a EXCEPT !.exod_zp_bits_hi = 0])

\* one iteration of the loop of exod_init_zp, x from 3 down to 0
AcmeInitZpStep(a) ==
    IF a.x >= 0 THEN [exod_get_crunched_byte(a) EXCEPT !.x = @ - 1]
    ELSE [a EXCEPT !.pc = "table", !.y = 0]

\* the head of the for loop over y
AcmeTableStep(a) ==
    IF a.y < 64
    THEN [exod_get_bits([a EXCEPT !.exod_zp_len_hi = 0]) EXCEPT !.pc = "seq"]
    ELSE [a EXCEPT !.pc = "returned"]

\* the head of the while (true) loop
AcmeSequenceStep(a) ==
    [exod_get_bits([a EXCEPT !.length = a.exod_decrunch_table[a.y]])
        EXCEPT !.pc = "copy"]

\* decompressed_data[decompressed_data_index++] = exod_zp_bitbuf; a write
\* past the 256 bytes of the array is noted in overrun
AcmeWrite(a) ==
    IF a.decompressed_data_index < 256
    THEN [a EXCEPT !.decompressed_data[a.decompressed_data_index] =
                       a.exod_zp_bitbuf,
                   !.decompressed_data_index = @ + 1]
    ELSE [a EXCEPT !.overrun = TRUE, !.decompressed_data_index = @ + 1]

\* while (length-- > 0): the test, the decrement of the uint8_t and, when
\* the test holds, the body
AcmeCopyStep(a) ==
    IF a.length > 0
    THEN AcmeWrite(exod_get_crunched_byte([a EXCEPT !.length = @ - 1]))
    ELSE [a EXCEPT !.length = (a.length - 1) % 256, !.pc = "break"]

\* if (length == 0) break; a break leads to ++y
AcmeBreakStep(a) ==
    IF a.length = 0 THEN [a EXCEPT !.pc = "table", !.y = (a.y + 1) % 256]
    ELSE [a EXCEPT !.pc = "seq"]

\* ---------------------------------------------------------- state machine
Ctx(p) ==
    [exod_zp_bitbuf |-> exod_zp_bitbuf,
     exod_zp_bit_count |-> exod_zp_bit_count,
     crunched_data_ptr |-> crunched_data_ptr,
     crunched_data_len |-> crunched_data_len,
     crunched_data_index |-> crunched_data_index,
     decompressed_data_ptr |-> decompressed_data_ptr,
     decompressed_buffer_size |-> decompressed_buffer_size,
     decompressed_data_index |-> decompressed_data_index,
     last_offset_val |-> last_offset_val,
     exod_decrunch_table_data |-> exod_decrunch_table_data,
     mem |-> mem, serial |-> serial,
     pc |-> loc[p].pc, exit |-> loc[p].exit,
     length |-> loc[p].length, offset |-> loc[p].offset,
     is_sequence |-> loc[p].is_sequence, i |-> loc[p].i,
     command_byte |-> loc[p].command_byte, bit |-> loc[p].bit,
     written |-> hist.written, wr |-> hist.wr,
     copy |-> hist.copy, new_dist |-> hist.new_dist,
     lit |-> hist.lit, fails |-> hist.fails, cmd |-> hist.cmd,
     glen |-> hist.glen, bitlog |-> hist.bitlog, pulls |-> hist.pulls,
     nb |-> hist.nb]

Install(p, c) ==
    /\ exod_zp_bitbuf' = c.exod_zp_bitbuf
    /\ exod_zp_bit_count' = c.exod_zp_bit_count
    /\ crunched_data_ptr' = c.crunched_data_ptr
    /\ crunched_data_len' = c.crunched_data_len
    /\ crunched_data_index' = c.crunched_data_index
    /\ decompressed_data_ptr' = c.decompressed_data_ptr
    /\ decompressed_buffer_size' = c.decompressed_buffer_size
    /\ decompressed_data_index' = c.decompressed_data_index
    /\ last_offset_val' = c.last_offset_val
    /\ exod_decrunch_table_data' = c.exod_decrunch_table_data
    /\ mem' = c.mem
    /\ serial' = c.serial
    /\ loc' = [loc EXCEPT ![p] = [pc |-> c.pc, exit |-> c.exit,
                                  length |-> c.length, offset |-> c.offset,
                                  is_sequence |-> c.is_sequence, i |-> c.i,
                                  command_byte |-> c.command_byte,
                                  bit |-> c.bit]]
    /\ hist' = [written |-> c.written, wr |-> c.wr,
                copy |-> c.copy, new_dist |-> c.new_dist,
                lit |-> c.lit, fails |-> c.fails, cmd |-> c.cmd,
                glen |-> c.glen, bitlog |-> c.bitlog, pulls |-> c.pulls,
                nb |-> c.nb]

Init ==
    /\ rawdec = RawFresh
    /\ acme = AcmeLoaded(crunched_data)
    /\ exod_zp_bitbuf = 0
    /\ exod_zp_bit_count = 0
    /\ crunched_data_ptr = <<>>
    /\ crunched_data_len = 0
    /\ crunched_data_index = 0
    /\ decompressed_data_ptr = 0
    /\ decompressed_buffer_size = 0
    /\ decompressed_data_index = 0
    /\ last_offset_val = 0
    /\ exod_decrunch_table_data = ZeroTable
    /\ mem = [b \in Procs |-> [k \in 0..(MemSize - 1) |-> 0]]
    /\ serial = ""
    /\ loc = [p \in Procs |-> [pc |-> "idle", exit |-> "none"] @@ NoLocals]
    /\ args = [p \in Procs |-> [in_data |-> <<>>, out_max_len |-> 0]]
    /\ calls = [p \in Procs |-> 0]
    /\ hist = [written |-> [b \in Procs |-> {}], wr |-> -1,
               copy |-> [start |-> 0, offset |-> 0, n |-> 0, rd |-> 0,
                         reused |-> FALSE],
               new_dist |-> 0,
               lit |-> NoLit, fails |-> 0, cmd |-> NoCmd, glen |-> NoGamma,
     bitlog |-> <<>>, pulls |-> <<>>, nb |-> NoBits]
    /\ ret = [p \in Procs |-> <<>>]

\* a caller invokes exod_decrunch(in_data, in_len, out_buffer, out_max_len)
\* with its own output region p; the caller makes at most max_calls calls
\* and draws its arguments from in_set and cap_set
Start(p, in_set, cap_set, max_calls) ==
    /\ loc[p].pc = "idle"
    /\ calls[p] < max_calls
    /\ \E in_data \in in_set, out_max_len \in cap_set :
          /\ Install(p, StartStep(Ctx(p), in_data, p, out_max_len))
          /\ args' = [args EXCEPT ![p] = [in_data |-> in_data,
                                          out_max_len |-> out_max_len]]
    /\ calls' = [calls EXCEPT ![p] = @ + 1]
    /\ UNCHANGED <<ret, rawdec, acme>>

DecodeCommand(p) ==
    /\ loc[p].pc = "loop"
    /\ decompressed_data_index < decompressed_buffer_size
    /\ Install(p, DecodeCommandStep(Ctx(p)))
    /\ UNCHANGED <<args, calls, ret, rawdec, acme>>

LoopExit(p) ==
    /\ loc[p].pc = "loop"
    /\ ~(decompressed_data_index < decompressed_buffer_size)
    /\ Install(p, LoopExitStep(Ctx(p)))
    /\ UNCHANGED <<args, calls, ret, rawdec, acme>>

LiteralByte(p) ==
    /\ loc[p].pc = "literal"
    /\ Install(p, LiteralByteStep(Ctx(p)))
    /\ UNCHANGED <<args, calls, ret, rawdec, acme>>

CheckOffset(p) ==
    /\ loc[p].pc = "check"
    /\ Install(p, CheckOffsetStep(Ctx(p)))
    /\ UNCHANGED <<args, calls, ret, rawdec, acme>>

CopyByte(p) ==
    /\ loc[p].pc = "copy"
    /\ Install(p, CopyByteStep(Ctx(p)))
    /\ UNCHANGED <<args, calls, ret, rawdec, acme>>

\* the bytes the caller of p finds in its region, up to the byte count
Output(p) ==
    [k \in 1..decompressed_data_index |->
        IF k - 1 \in DOMAIN mem[p] THEN mem[p][k - 1] ELSE 0]

\* the function has returned: the caller reads decompressed_data_index and
\* the bytes of its buffer, as setup() does
Return(p) ==
    /\ loc[p].pc = "done"
    /\ ret' = [ret EXCEPT ![p] = Append(@, [in_data |-> args[p].in_data,
                                            out_max_len |-> args[p].out_max_len,
                                            n |-> decompressed_data_index,
                                            out |-> Output(p)])]
    /\ loc' = [loc EXCEPT ![p].pc = "idle"]
    /\ UNCHANGED <<exod_zp_bitbuf, exod_zp_bit_count, crunched_data_ptr,
                   crunched_data_len, crunched_data_index,
                   decompressed_data_ptr, decompressed_buffer_size,
                   decompressed_data_index, last_offset_val,
                   exod_decrunch_table_data, mem, serial, args, calls, hist,
                   rawdec, acme>>

Step(p) ==
    \/ DecodeCommand(p)
    \/ LoopExit(p)
    \/ LiteralByte(p)
    \/ CheckOffset(p)
    \/ CopyByte(p)
    \/ Return(p)

\* one call, made first
Next ==
    \/ Start(1, Inputs, Caps, 1)
    \/ Step(1)

Spec == Init /\ [][Next]_vars

\* one caller making up to MaxCalls calls, one after the other, with the
\* same output region
NextSeq ==
    \/ Start(1, SeqInputs, SeqCaps, MaxCalls)
    \/ Step(1)

SpecSeq == Init /\ [][NextSeq]_vars

\* two callers, each making one call, their steps interleaved
NextConc ==
    \E p \in Procs :
        \/ Start(p, ConcInputs, ConcCaps, 1)
        \/ Step(p)

SpecConc == Init /\ [][NextConc]_vars

\* one call on a literal command of every length, or on a named input
NextLit ==
    \/ Start(1, LitInputs \cup NamedInputs, LitCaps, 1)
    \/ Step(1)

SpecLit == Init /\ [][NextLit]_vars

\* one call on a GammaCopy with a length code of every prefix length
NextGamma ==
    \/ Start(1, GammaInputs, GammaCaps, 1)
    \/ Step(1)

SpecGamma == Init /\ [][NextGamma]_vars

\* the bit reader called on its own after the entry of exod_decrunch has
\* set the input up: get_n_bits(n) or get_one_bit(), again and again until a
\* read fails
ProbeBits(p) ==
    /\ loc[p].pc = "loop"
    /\ \E n \in ProbeWidths :
          LET res == get_n_bits(n, Ctx(p))
          IN  Install(p, IF res.r = -1 /\ res.c.fails > 0
                         THEN Stop(res.c, "probe_eos") ELSE res.c)
    /\ UNCHANGED <<args, calls, ret, rawdec, acme>>

ProbeOneBit(p) ==
    /\ loc[p].pc = "loop"
    /\ LET res == get_one_bit(Ctx(p))
       IN  Install(p, IF res.r = -1 THEN Stop(res.c, "probe_eos") ELSE res.c)
    /\ UNCHANGED <<args, calls, ret, rawdec, acme>>

NextBits ==
    \/ Start(1, BitInputs, {1}, 1)
    \/ ProbeBits(1)
    \/ ProbeOneBit(1)
    \/ Return(1)

SpecBits == Init /\ [][NextBits]_vars

\* the listing with the 52-entry table, called once
Start52(p) ==
    /\ loc[p].pc = "idle"
    /\ calls[p] < 1
    /\ \E in_data \in Inputs52, out_max_len \in Caps52 :
          /\ Install(p, StartStep_52(Ctx(p), in_data, p, out_max_len))
          /\ args' = [args EXCEPT ![p] = [in_data |-> in_data,
                                          out_max_len |-> out_max_len]]
    /\ calls' = [calls EXCEPT ![p] = @ + 1]
    /\ UNCHANGED <<ret, rawdec, acme>>

DecodeCommand52(p) ==
    /\ loc[p].pc = "loop"
    /\ decompressed_data_index < decompressed_buffer_size
    /\ Install(p, DecodeCommandStep_52(Ctx(p)))
    /\ UNCHANGED <<args, calls, ret, rawdec, acme>>

LiteralByte52(p) ==
    /\ loc[p].pc = "literal"
    /\ Install(p, LiteralByteStep_52(Ctx(p)))
    /\ UNCHANGED <<args, calls, ret, rawdec, acme>>

Next52 ==
    \/ Start52(1)
    \/ DecodeCommand52(1)
    \/ LiteralByte52(1)
    \/ CopyByte(1)
    \/ LoopExit(1)
    \/ Return(1)

Spec52 == Init /\ [][Next52]_vars

\* the table-parsing listing, called once
fixed == <<exod_zp_bitbuf, exod_zp_bit_count, crunched_data_ptr,
           crunched_data_len, crunched_data_index, decompressed_data_ptr,
           decompressed_buffer_size, decompressed_data_index,
           last_offset_val, exod_decrunch_table_data, mem, serial, loc,
           args, calls, hist, ret>>

RawStart ==
    /\ rawdec.pc = "idle"
    /\ rawdec.calls < 1
    /\ \E in_data \in RawInputs, out_max_len \in RawCaps :
          rawdec' = RawStartStep(rawdec, in_data, out_max_len)
    /\ UNCHANGED <<fixed, acme>>

RawIteration ==
    /\ rawdec.pc = "loop"
    /\ rawdec' = RawIterationStep(rawdec)
    /\ UNCHANGED <<fixed, acme>>

RawCopyByte ==
    /\ rawdec.pc = "copy"
    /\ rawdec' = RawCopyByteStep(rawdec)
    /\ UNCHANGED <<fixed, acme>>

RawReturn ==
    /\ rawdec.pc = "done"
    /\ rawdec' = [rawdec EXCEPT !.pc = "idle"]
    /\ UNCHANGED <<fixed, acme>>

NextRaw == RawStart \/ RawIteration \/ RawCopyByte \/ RawReturn

SpecRaw == Init /\ [][NextRaw]_vars

\* acme.ino: setup calls exod_decrunch once
others == <<fixed, rawdec>>

AcmeStart ==
    /\ acme.pc = "setup"
    /\ \E data \in AcmeData :
          acme' = [AcmeLoaded(data) EXCEPT !.pc = "init_zp", !.x = 3]
    /\ UNCHANGED others

AcmeInitZp ==
    /\ acme.pc = "init_zp"
    /\ acme' = AcmeInitZpStep(acme)
    /\ UNCHANGED others

AcmeTable ==
    /\ acme.pc = "table"
    /\ acme' = AcmeTableStep(acme)
    /\ UNCHANGED others

AcmeSequence ==
    /\ acme.pc = "seq"
    /\ acme' = AcmeSequenceStep(acme)
    /\ UNCHANGED others

AcmeCopy ==
    /\ acme.pc = "copy"
    /\ acme' = AcmeCopyStep(acme)
    /\ UNCHANGED others

AcmeBreak ==
    /\ acme.pc = "break"
    /\ acme' = AcmeBreakStep(acme)
    /\ UNCHANGED others

NextAcme ==
    \/ AcmeStart
    \/ AcmeInitZp
    \/ AcmeTable
    \/ AcmeSequence
    \/ AcmeCopy
    \/ AcmeBreak

\* the sketch runs on its own processor: a step that can be taken is taken
SpecAcme == Init /\ [][NextAcme]_vars /\ WF_vars(NextAcme)

\* ------------------------------------------------------------ properties
Hello == <<72, 101, 108, 108, 111>>

\* input bits handed out so far by get_one_bit
BitsConsumed == 8 * crunched_data_index - exod_zp_bit_count

InputExhausted ==
    crunched_data_index = crunched_data_len /\ exod_zp_bit_count = 0

\* C1 as stated: with the demo vector and any capacity >= 5 the call leaves
\* exactly "Hello" and ends because the input ran out inside the GammaCopy
\* that follows the literal run.
C1_Original ==
    (loc[1].pc = "done" /\ args[1].in_data = demo_crunched_data
        /\ args[1].out_max_len >= 5)
    => /\ decompressed_data_index = 5
       /\ Output(1) = Hello
       /\ loc[1].exit = "len_fail"
       /\ InputExhausted

\* C1 amended: with the demo vector and any capacity >= 5 the call leaves
\* exactly the 5 bytes "Hello"; with capacity >= 6 it ends because the input
\* ran out while the length of the GammaCopy after the literal run was being
\* decoded, and with capacity exactly 5 it ends because the buffer is full,
\* the bits after the literal run never being read.
C1_HelloVector ==
    (loc[1].pc = "done" /\ args[1].in_data = demo_crunched_data
        /\ args[1].out_max_len >= 5)
    => /\ decompressed_data_index = 5
       /\ Output(1) = Hello
       /\ args[1].out_max_len >= 6
            => (loc[1].exit = "len_fail" /\ InputExhausted)
       /\ args[1].out_max_len = 5
            => (loc[1].exit = "full" /\ BitsConsumed = 46)

C1_Witness ==
    /\ loc[1].pc = "done"
    /\ args[1].in_data = demo_crunched_data
    /\ args[1].out_max_len = 6
    /\ loc[1].exit = "len_fail"
    /\ Output(1) = Hello

\* C2: the write position never exceeds the capacity and no byte is written
\* at an index at or beyond the capacity, by a literal run or by a copy.
C2_WithinCapacity ==
    /\ decompressed_data_index <= decompressed_buffer_size
    /\ \A k \in hist.written[1] : 0 <= k /\ k < args[1].out_max_len
    /\ hist.wr < decompressed_buffer_size

\* a copy that the capacity cuts short
C2_Witness ==
    /\ loc[1].pc = "copy"
    /\ hist.copy.n > 0
    /\ loc[1].i < loc[1].length
    /\ decompressed_data_index = decompressed_buffer_size

\* C3: a copy that is applied has 1 <= distance <= write position at its
\* start, and every byte it reads is at an index below the index it writes
\* and was written earlier in this call.
C3_CopyDistanceValid ==
    /\ loc[1].pc = "copy"
         => /\ 1 <= loc[1].offset
            /\ loc[1].offset <= hist.copy.start
            /\ hist.copy.start <= decompressed_data_index
    /\ hist.copy.n > 0
         => /\ 0 <= hist.copy.rd
            /\ hist.copy.rd < hist.copy.start + hist.copy.n - 1
            /\ hist.copy.rd \in hist.written[1]

C3_Witness ==
    /\ loc[1].pc = "copy"
    /\ hist.copy.n > 0
    /\ hist.copy.offset = hist.copy.start
    /\ hist.copy.offset > 1

\* C4: a copy whose distance is 0 or exceeds the output length stops the
\* call: the error line is printed, no byte is written, the write position
\* and the output memory are unchanged, and nothing is decoded afterwards.
C4_InvalidDistanceStops ==
    [][ /\ (loc[1].pc = "check"
              /\ (loc[1].offset = 0
                    \/ loc[1].offset > decompressed_data_index))
           => /\ loc'[1].pc = "done"
              /\ loc'[1].exit = "bad_offset"
              /\ serial' = "Error: Invalid offset"
              /\ mem' = mem
              /\ decompressed_data_index' = decompressed_data_index
              /\ hist'.written = hist.written
        /\ loc[1].exit = "bad_offset"
           => /\ loc'[1].pc = "idle"
              /\ mem' = mem
              /\ decompressed_data_index' = decompressed_data_index
              /\ BitsConsumed' = BitsConsumed ]_vars

\* a freshly decoded distance larger than the output so far
C4_Witness ==
    /\ loc[1].exit = "bad_offset"
    /\ loc[1].pc = "done"
    /\ hist.new_dist > decompressed_data_index
    /\ decompressed_data_index > 0

\* C5: each byte of a copy equals the byte `distance` places before it, as
\* the memory stands when it is written, so a copy with distance < length
\* repeats its own bytes; 'A' followed by Copy{5, 1} gives "AAAAAA".
C5_OverlapCopy ==
    /\ \A j \in hist.copy.start..(hist.copy.start + hist.copy.n - 1) :
          j - hist.copy.offset \in DOMAIN mem[1]
          /\ mem[1][j] = mem[1][j - hist.copy.offset]
    /\ (loc[1].pc = "done" /\ args[1].in_data = VecRunLength
          /\ args[1].out_max_len >= 6)
       => /\ decompressed_data_index = 6
          /\ Output(1) = <<65, 65, 65, 65, 65, 65>>

C5_Witness ==
    /\ loc[1].pc = "done"
    /\ args[1].in_data = VecRunLength
    /\ hist.copy = [start |-> 1, offset |-> 1, n |-> 5, rd |-> 4,
                    reused |-> FALSE]
    /\ Output(1) = <<65, 65, 65, 65, 65, 65>>

\* C6: a GammaCopy with reuse bit 1 copies with the distance decoded by the
\* most recent GammaCopy with reuse bit 0 of the same call.
C6_ReuseDistance ==
    /\ (loc[1].pc \in {"check", "copy"} /\ loc[1].bit = 1
          /\ hist.new_dist # 0)
       => loc[1].offset = hist.new_dist
    /\ (hist.copy.reused /\ hist.new_dist # 0)
       => hist.copy.offset = hist.new_dist

\* the second of two GammaCopy instructions copying with the reused distance
C6_Witness ==
    /\ args[1].in_data = VecReuse
    /\ hist.copy.reused
    /\ hist.copy.n > 0
    /\ hist.copy.offset = 2
    /\ hist.copy.start = 6

\* C7: a GammaCopy with reuse bit 1 met before any GammaCopy with reuse
\* bit 0 copies nothing and stops the call with the output produced so far.
C7_ReuseWithoutDistance ==
    [][ (loc[1].pc = "check" /\ loc[1].bit = 1 /\ hist.new_dist = 0)
        => /\ loc'[1].pc = "done"
           /\ mem' = mem
           /\ decompressed_data_index' = decompressed_data_index
           /\ hist'.written = hist.written
           /\ hist'.copy = hist.copy ]_vars

C7_Witness ==
    /\ loc[1].pc = "done"
    /\ loc[1].exit = "bad_offset"
    /\ hist.new_dist = 0
    /\ decompressed_data_index > 0
    /\ serial = "Error: Invalid offset"

\* a measure of what is left to do: input bits, then output room, then the
\* place in the loop body
PcRank ==
    IF loc[1].pc = "check" THEN 3
    ELSE IF loc[1].pc \in {"literal", "copy"} THEN 2
    ELSE IF loc[1].pc = "loop" THEN 1
    ELSE 0

Rank ==
    (8 * crunched_data_len - BitsConsumed) * (4 * (MemSize + 1))
    + (decompressed_buffer_size - decompressed_data_index) * 4
    + PcRank

\* C8: the decode loop terminates: the head of every iteration consumes at
\* least one input bit or stops the call, and every step of the call lowers
\* a measure that is never negative, so only finitely many steps follow.
C8_Terminates ==
    [][ /\ Rank >= 0
        /\ loc[1].pc = "loop"
             => (BitsConsumed' > BitsConsumed \/ loc'[1].pc = "done")
        /\ loc[1].pc \in {"loop", "literal", "check", "copy"}
             => Rank' < Rank ]_vars

\* a call that went round the loop three times before it returned
C8_Witness ==
    /\ Len(ret[1]) = 1
    /\ ret[1][1].in_data = VecReuse
    /\ ret[1][1].n = 7
    /\ hist.copy.start = 6

\* C9: what a call returns depends on its input and capacity only: a call
\* made after other calls returns what the first call with the same
\* arguments returned.
C9_CallsIndependent ==
    \A j \in 1..Len(ret[1]) :
        (ret[1][j].in_data = ret[1][1].in_data
            /\ ret[1][j].out_max_len = ret[1][1].out_max_len)
        => ret[1][j] = ret[1][1]

\* a call repeated after a different call that left a distance behind
C9_Witness ==
    /\ Len(ret[1]) = 3
    /\ ret[1][3].in_data = VecReuseFirst
    /\ ret[1][1].in_data = VecReuseFirst
    /\ ret[1][2].in_data = VecReuse
    /\ ret[1][3].out_max_len = ret[1][1].out_max_len
    /\ last_offset_val = 0

\* C10: two interleaved calls on the same input with equal capacities and
\* separate buffers each return what the call returns when run alone.
C10_InterleavedCallsIndependent ==
    \A p \in Procs :
        (Len(ret[p]) = 1 /\ calls[1] = 1 /\ calls[2] = 1
            /\ args[1] = args[2])
        => LET alone == exod_decrunch(args[p].in_data, args[p].out_max_len)
           IN  ret[p][1].n = alone.n /\ ret[p][1].out = alone.out

\* bit j (from 0) of the input, bit 7 of each byte first (0 past the end
\* of the input), and the number
\* made of the n bits from bit j on, first bit most significant
StreamBit(in, j) ==
    IF j \div 8 + 1 \in DOMAIN in
    THEN (in[j \div 8 + 1] \div (2 ^ (7 - (j % 8)))) % 2
    ELSE 0

RECURSIVE StreamBits(_, _, _)
StreamBits(in, j, n) ==
    IF n = 0 THEN 0
    ELSE 2 * StreamBits(in, j, n - 1) + StreamBit(in, j + n - 1)

\* C11: a literal command with table parameter p (0..31) appends p + 1
\* bytes, byte j being the 8 input bits that follow the command at bit
\* distance 8 * j, most significant first, wherever that falls within the
\* input bytes; it appends all p + 1 of them when 8 * (p + 1) bits and
\* p + 1 bytes of capacity remain at its start.
C11_LiteralRun ==
    LET in == args[1].in_data
        l  == hist.lit
    IN  /\ loc[1].pc = "literal"
             => /\ loc[1].command_byte \div 4 \in 0..31
                /\ l.len = loc[1].command_byte \div 4 + 1
                /\ decompressed_data_index = l.start + l.n
        /\ l.n <= l.len
        /\ \A j \in 0..(l.n - 1) :
               mem[1][l.start + j] = StreamBits(in, l.bit0 + 8 * j, 8)
        /\ (loc[1].pc # "literal" /\ l.len > 0
               /\ 8 * Len(in) - l.bit0 >= 8 * l.len
               /\ args[1].out_max_len - l.start >= l.len)
           => l.n = l.len

\* the longest literal run, complete, its bytes straddling the input bytes
C11_Witness ==
    /\ loc[1].pc = "done"
    /\ hist.lit = [start |-> 0, bit0 |-> 6, len |-> 32, n |-> 32]
    /\ decompressed_data_index = 32
    /\ mem[1][31] = (255 + 37 * 31) % 256

\* C12: a call with capacity c leaves exactly the first min(c, n) bytes of
\* what a call on the same input with any capacity c2 >= c leaves, n being
\* the byte count with c2; when the larger capacity gives more than c
\* bytes, the call stops with the write position equal to c, by leaving
\* the loop, and prints no error.
C12_CapacityPrefix ==
    loc[1].pc = "done"
    => \A c2 \in args[1].out_max_len..MaxCap :
          LET big == exod_decrunch(args[1].in_data, c2)
              n   == IF args[1].out_max_len < big.n
                     THEN args[1].out_max_len ELSE big.n
          IN  /\ decompressed_data_index = n
              /\ Output(1) = SubSeq(big.out, 1, n)
              /\ big.n > args[1].out_max_len
                    => /\ decompressed_data_index = args[1].out_max_len
                       /\ loc[1].exit = "full"
                       /\ serial = ""

\* a copy cut short by the capacity, which a larger capacity completes
C12_Witness ==
    /\ loc[1].pc = "done"
    /\ args[1].in_data = VecRunLength
    /\ args[1].out_max_len = 4
    /\ hist.copy.n = 3
    /\ exod_decrunch(VecRunLength, MaxCap).n = 6
    /\ Output(1) = <<65, 65, 65, 65>>

\* why a finished call stopped, in the words of the specification: the
\* loop ended at capacity, a bit read found the input at its end, a gamma
\* code was refused with input left, or the offset check failed with a
\* freshly decoded distance or with none decoded yet
Outcome(c) ==
    IF c.exit = "full" THEN "Success"
    ELSE IF c.fails > 0 THEN "Truncated"
    ELSE IF c.exit \in {"len_fail", "off_fail"} THEN "Error(MalformedCode)"
    ELSE IF c.new_dist = 0 THEN "Error(ReuseWithNoPriorDistance)"
    ELSE "Error(InvalidBackReference)"

\* what the caller has after the void function returned: the byte count,
\* the bytes, and the line on Serial
Delivered(c) ==
    [n |-> c.decompressed_data_index,
     out |-> [k \in 1..c.decompressed_data_index |->
                 ReadMem(c, k - 1)],
     serial |-> c.serial]

\* a gamma-coded length with 17 zero bits: refused with input left
VecMalformed == <<240, 0, 0>>
OutcomeInputs == NamedInputs \cup {<<>>, VecMalformed}

\* C13: the outcome of a call is delivered to its caller: two calls with
\* the same capacity that stopped for different reasons leave their
\* callers with different results.
C13_OutcomeDelivered ==
    loc[1].pc = "done"
    => \A in2 \in OutcomeInputs :
          LET other == RunFrom(StartStep(FreshCtx, in2, 1,
                                         args[1].out_max_len))
          IN  Outcome(other) # Outcome(Ctx(1))
              => Delivered(other) # Delivered(Ctx(1))

\* C14: the step in which a bit read fails ends the call and writes
\* nothing, and nothing is written afterwards; a literal run stopped by a
\* failed read has appended exactly the whole bytes the input still held
\* at its start, and the bits of the incomplete byte are dropped.
C14_ReadFailureStops ==
    [][ /\ hist'.fails > hist.fails
             => /\ loc'[1].pc = "done"
                /\ mem' = mem
                /\ decompressed_data_index' = decompressed_data_index
        /\ hist.fails > 0
             => /\ loc[1].pc \in {"done", "idle"}
                /\ mem' = mem
                /\ decompressed_data_index' = decompressed_data_index
                /\ hist'.written = hist.written
        /\ loc[1].exit = "lit_eos"
             => /\ hist.fails > 0
                /\ hist.lit.n < hist.lit.len
                /\ hist.lit.n
                     = (8 * Len(args[1].in_data) - hist.lit.bit0) \div 8
                /\ decompressed_data_index = hist.lit.start + hist.lit.n
                /\ \A j \in 0..(hist.lit.n - 1) :
                      mem[1][hist.lit.start + j]
                        = StreamBits(args[1].in_data,
                                     hist.lit.bit0 + 8 * j, 8) ]_vars

\* a literal run that appended a byte and then ran out inside the next one
C14_Witness ==
    /\ loc[1].pc = "idle"
    /\ loc[1].exit = "lit_eos"
    /\ hist.lit.n >= 1
    /\ BitsConsumed > hist.lit.bit0 + 8 * hist.lit.n
    /\ Len(ret[1]) = 1
    /\ ret[1][1].n = hist.lit.start + hist.lit.n

\* the number of zero bits of the input from bit j up to the first one bit
\* or the end of the input
RECURSIVE ZeroRun(_, _)
ZeroRun(in, j) ==
    IF j >= 8 * Len(in) THEN 0
    ELSE IF StreamBit(in, j) = 1 THEN 0
    ELSE 1 + ZeroRun(in, j + 1)

\* the gamma code read last for a length: its prefix length and whether
\* the input holds all of it
GammaK == ZeroRun(args[1].in_data, hist.glen.pos)
GammaWhole == hist.glen.pos + 2 * GammaK + 1 <= 8 * Len(args[1].in_data)

\* C15: for a gamma code with k <= 16 zero bits, a one bit and a k-bit
\* payload, get_gamma_coded_value returns (1 << k) | payload, the payload
\* read most significant bit first, and consumes 2k + 1 bits; for k = 0 it
\* returns 1 and consumes one bit.
C15_GammaValue ==
    (hist.glen.n > 0 /\ GammaK <= 16 /\ GammaWhole)
    => /\ hist.glen.r
            = 2 ^ GammaK + StreamBits(args[1].in_data,
                                      hist.glen.pos + GammaK + 1, GammaK)
       /\ hist.glen.used = 2 * GammaK + 1
       /\ GammaK = 0 => (hist.glen.r = 1 /\ hist.glen.used = 1)

\* C16: a gamma-coded length opening with more than 16 zero bits is
\* refused after 17 bit reads, none of which failed: the step ends the
\* call and leaves the output memory and the write position as they were;
\* a code with exactly 16 zero bits that the input holds whole is accepted.
C16_LongPrefixRejected ==
    [][ hist'.glen.n > hist.glen.n
        => LET k == ZeroRun(args[1].in_data, hist'.glen.pos)
               whole == hist'.glen.pos + 2 * k + 1
                           <= 8 * Len(args[1].in_data)
           IN  /\ k > 16
                    => /\ hist'.glen.r = 0
                       /\ hist'.glen.used = 17
                       /\ hist'.fails = hist.fails
                       /\ loc'[1].pc = "done"
                       /\ loc'[1].exit = "len_fail"
                       /\ mem' = mem
                       /\ decompressed_data_index' = decompressed_data_index
               /\ (k = 16 /\ whole)
                    => /\ hist'.glen.r # 0
                       /\ loc'[1].exit # "len_fail" ]_vars

\* C17: a GammaCopy whose length code gave g (1..65535) copies with
\* length g + 3, which is at least 4.
C17_GammaCopyLength ==
    (loc[1].pc = "check" /\ loc[1].command_byte % 4 = 3
        /\ hist.glen.r \in 1..65535)
    => /\ loc[1].length = hist.glen.r + 3
       /\ loc[1].length >= 4

\* the prefix path that starts at bit pos of the input: the table index of
\* its first entry, the width of its sub-index and the length of the prefix
CommandPath(in, pos) ==
    IF StreamBit(in, pos) = 0 THEN [base |-> 108, w |-> 5, plen |-> 1]
    ELSE IF StreamBit(in, pos + 1) = 0 THEN [base |-> 36, w |-> 4, plen |-> 2]
    ELSE IF StreamBit(in, pos + 2) = 0 THEN [base |-> 72, w |-> 3, plen |-> 3]
    ELSE IF StreamBit(in, pos + 3) = 0 THEN [base |-> 0, w |-> 2, plen |-> 4]
    ELSE [base |-> 144, w |-> 0, plen |-> 4]

\* C18: a command that is decoded takes the table entry the prefix code
\* names: 0 and 5 bits i give entry 108 + i, 10 and 4 bits entry 36 + i,
\* 110 and 3 bits entry 72 + i, 1110 and 2 bits entry i, 1111 entry 144;
\* the index is within 0..144 and 6 bits are consumed, 4 for 1111.
C18_PrefixCode ==
    (hist.cmd.n > 0 /\ hist.cmd.r # COMMAND_EOS_MARKER)
    => LET in   == args[1].in_data
           path == CommandPath(in, hist.cmd.pos)
       IN  /\ hist.cmd.idx
                = path.base + StreamBits(in, hist.cmd.pos + path.plen, path.w)
           /\ hist.cmd.idx \in 0..144
           /\ hist.cmd.r = exod_decrunch_table_data[hist.cmd.idx + 1]
           /\ hist.cmd.used = path.plen + path.w
           /\ hist.cmd.used = (IF path.base = 144 THEN 4 ELSE 6)

\* prefix 10 with the largest sub-index: entry 51, a literal of 16 bytes
C18_Witness ==
    /\ loc[1].pc = "literal"
    /\ hist.cmd = [pos |-> 0, r |-> 60, idx |-> 51, used |-> 6, n |-> 1]
    /\ StreamBits(args[1].in_data, 0, 6) = 47

C20_TableLayout ==
    LET T(k) == exod_decrunch_table_data[k + 1]
    IN  /\ DOMAIN exod_decrunch_table_data = 1..145
        /\ calls[1] = 0 => \A k \in 0..144 : T(k) = 0
        /\ calls[1] >= 1
             => /\ \A b \in 0..3 :
                      /\ \A i \in 0..31 :
                            T(36 * b + i) % 4 = 0 /\ T(36 * b + i) \div 4 = i
                      /\ \A j \in {32, 33} :
                            T(36 * b + j) % 4 = 1 /\ T(36 * b + j) \div 4 = 10
                      /\ \A j \in {34, 35} :
                            T(36 * b + j) % 4 = 2 /\ T(36 * b + j) \div 4 = 10
                /\ T(144) % 4 = 3
                /\ T(144) \div 4 = 0

\* the table as the third call, on another input than the first, made it
C20_Witness ==
    /\ calls[1] = 3
    /\ loc[1].pc = "loop"
    /\ Len(ret[1]) = 2
    /\ ret[1][1].in_data = VecRunLength
    /\ args[1].in_data = VecReuse
    /\ exod_decrunch_table_data[145] = 3

\* C21: the j-th bit handed out (from 0) is bit 7 - (j mod 8) of input byte
\* j div 8; a read of n bits, 1 <= n <= 16, that succeeds consumes n bits
\* and returns them with the first as the most significant, and fails only
\* when fewer than n bits are left; a read of 0 bits returns 0 and consumes
\* nothing.
C21_BitOrder ==
    LET in == args[1].in_data
    IN  /\ Len(hist.bitlog) <= 8 * Len(in)
        /\ \A j \in 0..(Len(hist.bitlog) - 1) :
              hist.bitlog[j + 1]
                = (in[j \div 8 + 1] \div (2 ^ (7 - (j % 8)))) % 2
        /\ (hist.nb.any /\ hist.nb.n = 0)
             => (hist.nb.r = 0 /\ hist.nb.used = 0)
        /\ (hist.nb.any /\ hist.nb.n \in 1..16)
             => IF hist.nb.r = -1
                THEN hist.nb.pos + hist.nb.n > 8 * Len(in)
                ELSE /\ hist.nb.used = hist.nb.n
                     /\ hist.nb.r = StreamBits(in, hist.nb.pos, hist.nb.n)

\* 16 bits read from bit 3 on, across three input bytes
C21_Witness ==
    /\ args[1].in_data = <<210, 65, 210>>
    /\ hist.nb = [pos |-> 3, n |-> 16, r |-> 37390, used |-> 16,
                  any |-> TRUE]
    /\ Len(hist.bitlog) = 19

\* C22: the bit count is always within 0..8; every byte was pulled from
\* the input when the count was 0, so the count is 8 per byte pulled less
\* 1 per bit handed out; once a bit read has failed the count is 0 and the
\* input position is where the failed pull found it, at the end.
C22_BitCursor ==
    /\ exod_zp_bit_count \in 0..8
    /\ \A k \in 1..Len(hist.pulls) : hist.pulls[k].cnt = 0
    /\ exod_zp_bit_count = 8 * Len(hist.pulls) - Len(hist.bitlog)
    /\ loc[1].pc # "idle" => crunched_data_index = Len(hist.pulls)
    /\ hist.fails > 0
         => /\ exod_zp_bit_count = 0
            /\ crunched_data_index = crunched_data_len
            /\ Len(hist.pulls) = crunched_data_len

\* three bytes pulled, all their bits handed out, then a failed pull
C22_Witness ==
    /\ loc[1].pc = "done"
    /\ hist.fails = 1
    /\ Len(hist.pulls) = 3
    /\ Len(hist.bitlog) = 24
    /\ exod_zp_bit_count = 0
    /\ crunched_data_index = 3

\* C26: the input index never exceeds the input length; every byte pulled
\* was at an index below the length, and the indices pulled are strictly
\* increasing, so no byte is read twice and none after a later one.
C26_InputReads ==
    /\ 0 <= crunched_data_index
    /\ crunched_data_index <= crunched_data_len
    /\ crunched_data_len = Len(crunched_data_ptr)
    /\ \A k \in 1..Len(hist.pulls) :
          /\ 0 <= hist.pulls[k].idx
          /\ hist.pulls[k].idx < crunched_data_len
          /\ \A m \in 1..(k - 1) : hist.pulls[m].idx < hist.pulls[k].idx

\* the demo input read to its last byte
C26_Witness ==
    /\ args[1].in_data = demo_crunched_data
    /\ Len(hist.pulls) = 7
    /\ hist.pulls[7].idx = 6
    /\ crunched_data_index = crunched_data_len
    /\ hist.fails > 0

\* C23: after the entry of a call last_offset_val changes only in the step
\* that decodes a GammaCopy with reuse bit 0 and a distance, and that step
\* sets it to the distance; a GammaCopy with reuse bit 1 copies with it and
\* leaves it alone, as do literal runs and steps that stop the call; a
\* type 1 or type 2 entry selected at a loop head would decode its distance
\* without reading or changing last_offset_val.
C23_LastDistanceFrame ==
    [][ /\ loc[1].pc # "idle"
             => /\ last_offset_val' # last_offset_val
                     => /\ loc[1].pc = "loop"
                        /\ loc'[1].pc = "check"
                        /\ loc'[1].command_byte % 4 = 3
                        /\ loc'[1].bit = 0
                /\ (loc[1].pc = "loop" /\ loc'[1].pc = "check"
                        /\ loc'[1].command_byte % 4 = 3)
                     => IF loc'[1].bit = 0
                        THEN /\ last_offset_val' = loc'[1].offset
                             /\ last_offset_val' = hist'.new_dist
                        ELSE /\ last_offset_val' = last_offset_val
                             /\ loc'[1].offset = last_offset_val
        /\ loc[1].pc = "loop"
             => \A type \in {1, 2} :
                   LET a == DecodeShortSeq(Ctx(1), type, 10)
                       b == DecodeShortSeq(
                               [Ctx(1) EXCEPT !.last_offset_val
                                                 = (@ + 1) % 65536],
                               type, 10)
                   IN  /\ a.last_offset_val = last_offset_val
                       /\ a.offset = b.offset
                       /\ a.pc = b.pc ]_vars

\* a GammaCopy with reuse bit 0 that has just set the distance to 2
C23_Witness ==
    /\ args[1].in_data = VecReuse
    /\ loc[1].pc = "check"
    /\ loc[1].bit = 0
    /\ loc[1].offset = 2
    /\ last_offset_val = 2
    /\ hist.cmd.n = 2

\* C24: after the entry of a call a step leaves the write position alone
\* or raises it by 1; when it raises it, it wrote the byte at the old
\* position and no other; a byte below the write position is never
\* changed; so the bytes written in the call are exactly those at the
\* indices below the write position, also when the call has stopped.
C24_AppendOnly ==
    [][ loc[1].pc # "idle"
        => /\ hist.written[1] = 0..(decompressed_data_index - 1)
           /\ decompressed_data_index' \in
                 {decompressed_data_index, decompressed_data_index + 1}
           /\ decompressed_data_index' = decompressed_data_index
                => mem' = mem
           /\ decompressed_data_index' = decompressed_data_index + 1
                => /\ hist'.wr = decompressed_data_index
                   /\ \A k \in DOMAIN mem[1] :
                         k # decompressed_data_index
                         => mem'[1][k] = mem[1][k]
                   /\ mem'[2] = mem[2]
           /\ \A k \in 0..(decompressed_data_index - 1) :
                 mem'[1][k] = mem[1][k] ]_vars

\* a call stopped by the end of the input after a literal and a copy
C24_Witness ==
    /\ loc[1].pc = "done"
    /\ loc[1].exit = "eos"
    /\ args[1].in_data = VecRunLength
    /\ decompressed_data_index = 6
    /\ hist.written[1] = 0..5

\* the table indices of the type 1 and type 2 entries
ShortCopyIndices == {36 * b + j : b \in 0..3, j \in 32..35}

\* C25: a command that is decoded is a literal entry or the entry 144: its
\* index is none of 32-35, 68-71, 104-107, 140-143, its type is 0 or 3,
\* type 3 comes from index 144 only, and a literal reached by a prefix with
\* a w-bit sub-index (w = 5, 4, 3, 2 for 0, 10, 110, 1110) has a length
\* within 1..2^w.
C25_ShortCopiesUnreachable ==
    (hist.cmd.n > 0 /\ hist.cmd.r # COMMAND_EOS_MARKER)
    => LET path == CommandPath(args[1].in_data, hist.cmd.pos)
       IN  /\ hist.cmd.idx \notin ShortCopyIndices
           /\ \A k \in ShortCopyIndices :
                 exod_decrunch_table_data[k + 1] % 4 \in {1, 2}
           /\ hist.cmd.r % 4 \in {0, 3}
           /\ (hist.cmd.r % 4 = 3) <=> (hist.cmd.idx = 144)
           /\ hist.cmd.r % 4 = 0
                => /\ hist.cmd.r \div 4 + 1 \in 1..(2 ^ path.w)
                   /\ path.w \in {5, 4, 3, 2}
           /\ loc[1].pc \notin {"idle", "done"} => ~loc[1].is_sequence
                                                    \/ loc[1].command_byte = 3

\* the longest literal the prefix 110 reaches: entry 79, 8 bytes
C25_Witness ==
    /\ loc[1].pc = "literal"
    /\ hist.cmd.idx = 79
    /\ hist.cmd.n = 1
    /\ loc[1].length = 8
    /\ StreamBits(args[1].in_data, 0, 3) = 6

\* the call of process 1 left what the run v left
SameOutput(v) ==
    /\ v.n = decompressed_data_index
    /\ \A k \in 1..v.n : v.out[k] = mem[1][k - 1]

C28_RawCopyDistanceValid ==
    rawdec.rd.n > 0
    => /\ 1 <= rawdec.rd.offset
       /\ rawdec.rd.offset <= rawdec.rd.at
       /\ rawdec.rd.src < rawdec.rd.at
       /\ rawdec.rd.known

\* C29: when the gamma decoder returns 0 for the offset of a gamma
\* sequence of the 52-entry listing, the call ends in that step and copies
\* nothing: the output memory and the write position stay as they were.
C29_FailedOffsetStops ==
    [][ (hist'.glen.n > hist.glen.n /\ hist'.glen.r = 0)
        => /\ loc'[1].pc = "done"
           /\ mem' = mem
           /\ decompressed_data_index' = decompressed_data_index ]_vars

\* C30: exod_decrunch of acme.ino returns to setup after finitely many
\* steps, and decompressed_data_index never exceeds the 256 bytes of
\* decompressed_data.
C30_AcmeTerminates ==
    /\ <>(acme.pc = "returned")
    /\ [](acme.decompressed_data_index <= 256 /\ ~acme.overrun)

====
